---- MODULE Spec2Model ----
(***************************************************************************)
(* A state-machine model of demo_engine: the ResourceManager tables, the  *)
(* DemoScene object list and initialization, the ObjectId counter, the    *)
(* surface configuration and the per-frame render sequence driven by the  *)
(* application's event handler.                                           *)
(*                                                                         *)
(* GPU objects (buffers, shader modules, pipelines, bind groups) are      *)
(* opaque in the source; here each one is a handle, a positive integer    *)
(* drawn from the allocation counter next_handle, and 0 stands for        *)
(* Option::None.  A HashMap is a function whose DOMAIN is its key set.    *)
(***************************************************************************)
EXTENDS Integers, Sequences, FiniteSets, TLC

VARIABLES
    \* ---- ResourceManager (resources/manager.rs), Option<ResourceManager> of the scene
    resource_manager,
    next_handle,
    buffer_data,
    \* ---- DemoScene (scene/demo_scene.rs)
    render_objects,
    camera,
    camera_uniform,
    camera_buffer,
    camera_bind_group,
    initialized,
    \* ---- static NEXT_OBJECT_ID (scene/render_object.rs) and its callers
    NEXT_OBJECT_ID,
    callers,
    \* ---- GraphicsEngine / SurfaceManager
    surface_config,
    frame,
    \* ---- App (app/mod.rs)
    app,
    input_state,
    \* ---- the last operation: its name, arguments and result
    last,
    \* ---- the size of the most recent resize call with both dimensions nonzero,
    \*      or the initial size
    last_valid_size

vars == << resource_manager, next_handle, buffer_data, render_objects, camera,
           camera_uniform, camera_buffer, camera_bind_group, initialized,
           NEXT_OBJECT_ID, callers, surface_config, frame, app, input_state, last,
           last_valid_size >>

rmVars    == << resource_manager, next_handle, buffer_data >>
sceneVars == << render_objects, camera, camera_uniform, camera_buffer,
                camera_bind_group, initialized >>
idVars    == << NEXT_OBJECT_ID, callers >>
gfxVars   == << surface_config, frame, last_valid_size >>
appVars   == << app, input_state >>

(***************************************************************************)
(* Bounds of the model.                                                    *)
(***************************************************************************)
\* handles a run may allocate (GPU objects created)
MaxHandles == 7
\* handles a run of the resource manager alone may allocate
MaxRmHandles == 3
\* calls of ObjectId::generate by concurrent callers in a run
MaxGenerate == 3
\* objects a run adds to a scene
MaxObjects == 2
\* surface widths and heights range over 0..MaxDim
MaxDim == 2
\* threads calling ObjectId::generate concurrently
MaxCallers == 2
\* camera coordinates stay within -MaxCoord..MaxCoord
MaxCoord == 5
\* coordinates of a camera driven through its own methods
MaxCameraCoord == 24
\* objects added to the scene whose update is followed
MaxUpdateObjects == 1
\* scenes boxed and registered with a scene manager in a run
MaxScenes == 3

(***************************************************************************)
(* Option, Result and HashMap.                                             *)
(***************************************************************************)
None == 0

Ok(v) == [ok |-> TRUE, err |-> "", val |-> v]

Err(kind) == [ok |-> FALSE, err |-> kind, val |-> 0]

EmptyMap == << >>

\* insert that keeps the entry a key already has (entry().or_insert)
Insert_keep(m, k, v) == [x \in (DOMAIN m) \cup {k} |-> IF x \in DOMAIN m THEN m[x] ELSE v]

\* HashMap::insert: a later insert under the same key overwrites
Insert(m, k, v) == [x \in (DOMAIN m) \cup {k} |-> IF x = k THEN v ELSE m[x]]

\* HashMap::get(..).cloned()
Get(m, k) == IF k \in DOMAIN m THEN m[k] ELSE None

\* HashMap::remove: the map without the key, and the value it had as an
\* Option (the empty sequence for None, the one-element sequence for Some)
Remove(m, k) == [x \in (DOMAIN m) \ {k} |-> m[x]]

Removed(m, k) == IF k \in DOMAIN m THEN << m[k] >> ELSE << >>

(***************************************************************************)
(* ResourceId::new(name): DefaultHasher over the bytes of the name.  A     *)
(* name is the sequence of its pieces, each a string literal of the source *)
(* or a number formatted into it; the hasher folds the pieces in order     *)
(* into a value below HashModulus.                                         *)
(***************************************************************************)
HashModulus == 65521

\* a string literal of the source, and a number formatted with {}
S(str) == << "s", str >>

N(n) == << "n", n >>

StrCode(str) ==
    CASE str = "basic_pipeline"    -> 101
      [] str = "basic_shader"      -> 211
      [] str = "camera_buffer"     -> 307
      [] str = "camera_bind_group" -> 401
      [] str = "quad_mesh_"        -> 503
      [] str = "triangle_mesh_"    -> 601
      [] str = "_vertex"           -> 701
      [] str = "_index"            -> 809
      [] str = "Demo_Scene"        -> 1009
      [] OTHER                     -> 907

PieceCode(p) == IF p[1] = "n" THEN 1000 + p[2] ELSE StrCode(p[2])

RECURSIVE HashFold(_, _)
HashFold(h, name) ==
    IF name = << >> THEN h
    ELSE HashFold((h * 31 + PieceCode(Head(name))) % HashModulus, Tail(name))

\* a hasher whose initial state depends on what was allocated before the call
ResourceId_new_seeded(name) == HashFold(7 + next_handle, name)

ResourceId_new(name) == HashFold(7, name)

(***************************************************************************)
(* Mesh (resources/mesh.rs) and the primitives.                            *)
(***************************************************************************)
\* Mesh::new: a vertex buffer, and an index buffer when indices are given
\* (n_indices < 0 stands for indices = None)
Mesh_new(nh, n_vertices, n_indices) ==
    IF n_indices >= 0
    THEN [mesh |-> [vertex_buffer |-> nh, index_buffer |-> nh + 1,
                    vertex_count |-> n_vertices, index_count |-> n_indices],
          nh   |-> nh + 2]
    ELSE [mesh |-> [vertex_buffer |-> nh, index_buffer |-> None,
                    vertex_count |-> n_vertices, index_count |-> 0],
          nh   |-> nh + 1]

\* Quad: 4 vertices, indices [0, 1, 2, 0, 2, 3]
Quad_create_mesh(nh) == Mesh_new(nh, 4, 6)

\* Triangle: 3 vertices, no indices
Triangle_create_mesh(nh) == Mesh_new(nh, 3, -1)

\* handles a primitive's mesh allocates
MeshHandles(object_type) == IF object_type = "Quad" THEN 2 ELSE 1

(***************************************************************************)
(* ResourceManager (resources/manager.rs).  Every operation takes the      *)
(* manager and the allocation counter and returns the manager after the    *)
(* call, the counter after it and the value returned to the caller.        *)
(***************************************************************************)
ResourceManager_new(surface_format) ==
    [some           |-> TRUE,
     surface_format |-> surface_format,
     buffers        |-> EmptyMap,
     pipelines      |-> EmptyMap,
     shaders        |-> EmptyMap,
     meshes         |-> EmptyMap,
     bind_groups    |-> EmptyMap]

\* Option<ResourceManager>::None of a scene that was never initialized
NoResourceManager == [ResourceManager_new("none") EXCEPT !.some = FALSE]

\* contents: the bytes the new buffer is created with (create_buffer_init)
create_buffer_with_data(rm, nh, id, data) ==
    [rm       |-> [rm EXCEPT !.buffers = Insert(@, id, nh)],
     nh       |-> nh + 1,
     res      |-> Ok(nh),
     contents |-> data]

create_uniform_buffer(rm, nh, id, data) ==
    [rm       |-> [rm EXCEPT !.buffers = Insert(@, id, nh)],
     nh       |-> nh + 1,
     res      |-> Ok(nh),
     contents |-> data]

\* queue.write_buffer(buffer, 0, bytes of data): a full overwrite
update_uniform_buffer(data_of, buffer, data) == Insert(data_of, buffer, data)

create_shader(rm, nh, id) ==
    [rm  |-> [rm EXCEPT !.shaders = Insert(@, id, nh)],
     nh  |-> nh + 1,
     res |-> Ok(nh)]

\* create_pipeline that drops the pipeline under id when the shader is missing
create_pipeline_drop_on_miss(rm, nh, id, shader_id) ==
    IF shader_id \notin DOMAIN rm.shaders
    THEN [rm  |-> [rm EXCEPT !.pipelines = Remove(@, id)],
          nh  |-> nh,
          res |-> Err("ResourceNotFound")]
    ELSE [rm  |-> [rm EXCEPT !.pipelines = Insert(@, id, nh)],
          nh  |-> nh + 1,
          res |-> Ok(nh)]

\* create_pipeline that stores a pipeline before it looks the shader up
create_pipeline_store_first(rm, nh, id, shader_id) ==
    IF shader_id \notin DOMAIN rm.shaders
    THEN [rm  |-> [rm EXCEPT !.pipelines = Insert(@, id, nh)],
          nh  |-> nh + 1,
          res |-> Err("ResourceNotFound")]
    ELSE [rm  |-> [rm EXCEPT !.pipelines = Insert(@, id, nh)],
          nh  |-> nh + 1,
          res |-> Ok(nh)]

create_pipeline(rm, nh, id, shader_id) ==
    IF shader_id \notin DOMAIN rm.shaders
    THEN [rm |-> rm, nh |-> nh, res |-> Err("ResourceNotFound")]
    ELSE [rm  |-> [rm EXCEPT !.pipelines = Insert(@, id, nh)],
          nh  |-> nh + 1,
          res |-> Ok(nh)]

create_bind_group(rm, nh, id) ==
    [rm  |-> [rm EXCEPT !.bind_groups = Insert(@, id, nh)],
     nh  |-> nh + 1,
     res |-> Ok(nh)]

\* register_mesh that files the vertex buffer under the mesh id itself
register_mesh_under_id(rm, id, mesh) ==
    LET with_vertex == Insert(rm.buffers, id, mesh.vertex_buffer)
        with_index  == IF mesh.index_buffer # None
                       THEN Insert(with_vertex,
                                   ResourceId_new(<< N(id), S("_index") >>),
                                   mesh.index_buffer)
                       ELSE with_vertex
    IN  [rm EXCEPT !.buffers = with_index, !.meshes = Insert(@, id, mesh)]

\* register_mesh that files the vertex buffer only
register_mesh_vertex_only(rm, id, mesh) ==
    [rm EXCEPT !.buffers = Insert(@, ResourceId_new(<< N(id), S("_vertex") >>),
                                  mesh.vertex_buffer),
               !.meshes = Insert(@, id, mesh)]

register_mesh(rm, id, mesh) ==
    LET with_vertex == Insert(rm.buffers,
                              ResourceId_new(<< N(id), S("_vertex") >>),
                              mesh.vertex_buffer)
        with_index  == IF mesh.index_buffer # None
                       THEN Insert(with_vertex,
                                   ResourceId_new(<< N(id), S("_index") >>),
                                   mesh.index_buffer)
                       ELSE with_vertex
    IN  [rm EXCEPT !.buffers = with_index, !.meshes = Insert(@, id, mesh)]

get_bind_group(rm, id) == Get(rm.bind_groups, id)

get_buffer(rm, id) == Get(rm.buffers, id)

get_pipeline(rm, id) == Get(rm.pipelines, id)

get_shader(rm, id) == Get(rm.shaders, id)

\* Option<Arc<Mesh>>: the mesh record, or NoMesh for None
NoMesh == [vertex_buffer |-> None, index_buffer |-> None,
           vertex_count |-> 0, index_count |-> 0]

get_mesh(rm, id) == IF id \in DOMAIN rm.meshes THEN rm.meshes[id] ELSE NoMesh

(***************************************************************************)
(* f32 restricted to integer values: a float holds SignificandBits         *)
(* significant bits, so every integer of magnitude up to 2^SignificandBits *)
(* is exact and a larger one is rounded to the nearest multiple of its     *)
(* unit in the last place, ties to even.                                   *)
(***************************************************************************)
SignificandBits == 4

Sign(n) == IF n > 0 THEN 1 ELSE IF n < 0 THEN -1 ELSE 0

Abs(n) == IF n < 0 THEN -n ELSE n

\* the magnitude from which integers are no longer all representable
ExactLimit == 2^SignificandBits

\* the unit in the last place of a magnitude
RECURSIVE Ulp(_)
Ulp(a) == IF a < ExactLimit THEN 1 ELSE 2 * Ulp(a \div 2)

\* the multiple of u nearest to the magnitude a, the even one on a tie
RoundTo(a, u) ==
    IF 2 * (a % u) > u \/ (2 * (a % u) = u /\ (a \div u) % 2 = 1)
    THEN (a \div u + 1) * u
    ELSE (a \div u) * u

\* the result of an arithmetic operation whose exact value is n
Fl(n) ==
    IF -ExactLimit < n /\ n < ExactLimit THEN n
    ELSE Sign(n) * RoundTo(Abs(n), Ulp(Abs(n)))

(***************************************************************************)
(* glam::Vec3 restricted to integer coordinates.  nan marks a vector whose *)
(* components are NaN (the normalization of the zero vector).              *)
(***************************************************************************)
V(x, y, z) == [x |-> x, y |-> y, z |-> z, nan |-> FALSE]

NaNVec == [x |-> 0, y |-> 0, z |-> 0, nan |-> TRUE]

VAdd(a, b) ==
    IF a.nan \/ b.nan THEN NaNVec
    ELSE V(Fl(a.x + b.x), Fl(a.y + b.y), Fl(a.z + b.z))

VSub(a, b) ==
    IF a.nan \/ b.nan THEN NaNVec
    ELSE V(Fl(a.x - b.x), Fl(a.y - b.y), Fl(a.z - b.z))

VScale(a, k) == IF a.nan THEN NaNVec ELSE V(Fl(a.x * k), Fl(a.y * k), Fl(a.z * k))

VCross(a, b) ==
    IF a.nan \/ b.nan THEN NaNVec
    ELSE V(Fl(Fl(a.y * b.z) - Fl(a.z * b.y)), Fl(Fl(a.z * b.x) - Fl(a.x * b.z)),
           Fl(Fl(a.x * b.y) - Fl(a.y * b.x)))

VDot(a, b) == Fl(Fl(Fl(a.x * b.x) + Fl(a.y * b.y)) + Fl(a.z * b.z))

AxisAligned(a) ==
    ~a.nan /\ Cardinality({c \in {"x", "y", "z"} : a[c] # 0}) = 1

\* Vec3::normalize: v * (1 / |v|).  Exact on an axis-aligned vector; the zero
\* vector gives 0 * inf = NaN.  The specifications below keep every direction
\* on an axis.
VNormalize(a) ==
    IF AxisAligned(a) THEN V(Sign(a.x), Sign(a.y), Sign(a.z)) ELSE NaNVec

\* squared length
VLen2(a) == VDot(a, a)

\* an angle is a whole number of quarter turns, so that its sine and cosine
\* are integers
Cos(q) == CASE q % 4 = 0 -> 1 [] q % 4 = 1 -> 0 [] q % 4 = 2 -> -1 [] OTHER -> 0

Sin(q) == CASE q % 4 = 0 -> 0 [] q % 4 = 1 -> 1 [] q % 4 = 2 -> 0 [] OTHER -> -1

\* Mat3::from_rotation_y(angle) * v
RotateY(q, v) ==
    IF v.nan THEN NaNVec
    ELSE V(Cos(q) * v.x + Sin(q) * v.z, v.y, Cos(q) * v.z - Sin(q) * v.x)

\* Mat3::from_axis_angle(axis, angle) * v, for a unit axis
RotateAxis(axis, q, v) ==
    IF axis.nan \/ v.nan THEN NaNVec
    ELSE VAdd(VAdd(VScale(v, Cos(q)), VScale(VCross(axis, v), Sin(q))),
              VScale(axis, VDot(axis, v) * (1 - Cos(q))))

(***************************************************************************)
(* Camera (scene/camera.rs).                                               *)
(***************************************************************************)
\* CameraConfig::default: fov_degrees 45.0, znear 0.1 (1/10), zfar 100.0
Camera_new(aspect) ==
    [eye    |-> V(0, 0, 3),
     target |-> V(0, 0, 0),
     up     |-> V(0, 1, 0),
     aspect |-> aspect,
     fovy   |-> << "to_radians", 45 >>,
     znear  |-> << 1, 10 >>,
     zfar   |-> << 100, 1 >>]

\* proj * view as a term over the fields it is computed from
build_view_proj_matrix(c) ==
    [identity |-> FALSE, eye |-> c.eye, target |-> c.target, up |-> c.up,
     aspect |-> c.aspect, fovy |-> c.fovy, znear |-> c.znear, zfar |-> c.zfar]

\* move_forward that leaves the target where it is
move_forward_eye_only(c, delta) ==
    LET forward == VNormalize(VSub(c.target, c.eye))
    IN  [c EXCEPT !.eye = VAdd(@, VScale(forward, delta))]

move_forward(c, delta) ==
    LET forward == VNormalize(VSub(c.target, c.eye))
    IN  [c EXCEPT !.eye    = VAdd(@, VScale(forward, delta)),
                  !.target = VAdd(@, VScale(forward, delta))]

move_right(c, delta) ==
    LET forward == VNormalize(VSub(c.target, c.eye))
        right   == VNormalize(VCross(forward, c.up))
    IN  [c EXCEPT !.eye    = VAdd(@, VScale(right, delta)),
                  !.target = VAdd(@, VScale(right, delta))]

move_up(c, delta) ==
    [c EXCEPT !.eye    = VAdd(@, VScale(c.up, delta)),
              !.target = VAdd(@, VScale(c.up, delta))]

\* rotate_horizontal that turns the eye about the target
rotate_horizontal_orbit(c, angle) ==
    LET direction     == VSub(c.eye, c.target)
        new_direction == RotateY(angle, direction)
    IN  [c EXCEPT !.eye = VAdd(c.target, new_direction)]

rotate_horizontal(c, angle) ==
    LET direction     == VSub(c.target, c.eye)
        new_direction == RotateY(angle, direction)
    IN  [c EXCEPT !.target = VAdd(c.eye, new_direction)]

rotate_vertical(c, angle) ==
    LET forward       == VNormalize(VSub(c.target, c.eye))
        right         == VNormalize(VCross(forward, c.up))
        new_direction == RotateAxis(right, angle, forward)
    IN  [c EXCEPT !.target = VAdd(c.eye, new_direction)]

(***************************************************************************)
(* CameraUniform (resources/uniforms/mod.rs).                              *)
(***************************************************************************)
\* Mat4::IDENTITY
CameraUniform_new ==
    [identity |-> TRUE, eye |-> V(0, 0, 0), target |-> V(0, 0, 0), up |-> V(0, 0, 0),
     aspect |-> << 0, 0 >>, fovy |-> << "to_radians", 0 >>,
     znear |-> << 0, 0 >>, zfar |-> << 0, 0 >>]

update_view_proj(c) == build_view_proj_matrix(c)

(***************************************************************************)
(* ObjectId and RenderObject (scene/render_object.rs).                     *)
(***************************************************************************)
\* generate that reads the counter with load and never stores
ObjectId_generate_load(counter) == [id |-> counter, counter |-> counter]

\* NEXT_OBJECT_ID.fetch_add(1, Relaxed): one atomic step that returns the
\* value before the addition.  Every run makes at most MaxGenerate calls, far
\* below the 2^32 calls after which the u32 counter wraps.
ObjectId_generate(counter) == [id |-> counter, counter |-> counter + 1]

RenderObject_new(mesh_id, pipeline_id, counter) ==
    LET g == ObjectId_generate(counter)
    IN  [object  |-> [mesh_id     |-> mesh_id,
                      pipeline_id |-> pipeline_id,
                      position    |-> V(0, 0, 0),
                      visible     |-> TRUE,
                      id          |-> g.id],
         counter |-> g.counter]

\* Transform::new().with_position(position), RenderObject::with_transform
with_transform(object, position) == [object EXCEPT !.position = position]

\* Transform::set_position
set_position(object, position) == [object EXCEPT !.position = position]

set_visible(object, visible) == [object EXCEPT !.visible = visible]

(***************************************************************************)
(* DemoScene (scene/demo_scene.rs).  A scene value s is the record of the  *)
(* struct's fields; Scene reads it from the variables, SetScene writes it. *)
(***************************************************************************)
\* MovementConfig::default
move_speed == 5

\* rotation_speed 1.0, in quarter turns per unit of dt
rotation_speed == 1

DemoScene_new(aspect) ==
    [render_objects    |-> << >>,
     camera            |-> Camera_new(aspect),
     camera_uniform    |-> CameraUniform_new,
     camera_buffer     |-> None,
     camera_bind_group |-> None,
     initialized       |-> FALSE,
     resource_manager  |-> NoResourceManager,
     pipeline_id       |-> ResourceId_new(<< S("basic_pipeline") >>)]

Scene ==
    [render_objects    |-> render_objects,
     camera            |-> camera,
     camera_uniform    |-> camera_uniform,
     camera_buffer     |-> camera_buffer,
     camera_bind_group |-> camera_bind_group,
     initialized       |-> initialized,
     resource_manager  |-> resource_manager,
     pipeline_id       |-> ResourceId_new(<< S("basic_pipeline") >>)]

SetScene(s) ==
    /\ render_objects'    = s.render_objects
    /\ camera'            = s.camera
    /\ camera_uniform'    = s.camera_uniform
    /\ camera_buffer'     = s.camera_buffer
    /\ camera_bind_group' = s.camera_bind_group
    /\ initialized'       = s.initialized
    /\ resource_manager'  = s.resource_manager

\* index of the first object with the id, 0 when there is none (iter_mut().find)
RECURSIVE FindFrom(_, _, _)
FindFrom(objects, object_id, i) ==
    IF i > Len(objects) THEN 0
    ELSE IF objects[i].id = object_id THEN i
    ELSE FindFrom(objects, object_id, i + 1)

Find(objects, object_id) == FindFrom(objects, object_id, 1)

\* Vec::retain(|obj| obj.id != object_id)
RECURSIVE Retain(_, _)
Retain(objects, object_id) ==
    IF objects = << >> THEN << >>
    ELSE IF Head(objects).id # object_id
         THEN << Head(objects) >> \o Retain(Tail(objects), object_id)
         ELSE Retain(Tail(objects), object_id)

\* add_quad and add_triangle; they differ in the primitive and the name prefix.
\* get_resource_manager_mut panics on a scene without a resource manager, so the
\* callers below require s.resource_manager.some.
add_quad(s, nh, counter, position) ==
    LET m       == Quad_create_mesh(nh)
        mesh_id == ResourceId_new(<< S("quad_mesh_"), N(Len(s.render_objects)) >>)
        rm      == register_mesh(s.resource_manager, mesh_id, m.mesh)
        r       == RenderObject_new(mesh_id, s.pipeline_id, counter)
        object  == with_transform(r.object, position)
    IN  [scene   |-> [s EXCEPT !.resource_manager = rm,
                               !.render_objects = Append(@, object)],
         nh      |-> m.nh,
         counter |-> r.counter,
         res     |-> object.id]

add_triangle(s, nh, counter, position) ==
    LET m       == Triangle_create_mesh(nh)
        mesh_id == ResourceId_new(<< S("triangle_mesh_"), N(Len(s.render_objects)) >>)
        rm      == register_mesh(s.resource_manager, mesh_id, m.mesh)
        r       == RenderObject_new(mesh_id, s.pipeline_id, counter)
        object  == with_transform(r.object, position)
    IN  [scene   |-> [s EXCEPT !.resource_manager = rm,
                               !.render_objects = Append(@, object)],
         nh      |-> m.nh,
         counter |-> r.counter,
         res     |-> object.id]

add_object(s, nh, counter, object_type, position) ==
    IF object_type = "Quad"
    THEN add_quad(s, nh, counter, position)
    ELSE add_triangle(s, nh, counter, position)

\* move_object that moves the first object whatever its id
move_object_first(s, object_id, position) ==
    IF s.render_objects # << >>
    THEN [scene |-> [s EXCEPT !.render_objects[1] = set_position(@, position)],
          res   |-> TRUE]
    ELSE [scene |-> s, res |-> FALSE]

move_object(s, object_id, position) ==
    LET i == Find(s.render_objects, object_id)
    IN  IF i # 0
        THEN [scene |-> [s EXCEPT !.render_objects[i] = set_position(@, position)],
              res   |-> TRUE]
        ELSE [scene |-> s, res |-> FALSE]

\* remove_object that compares the lengths with <=
remove_object_le(s, object_id) ==
    LET before_len == Len(s.render_objects)
        retained   == Retain(s.render_objects, object_id)
    IN  [scene |-> [s EXCEPT !.render_objects = retained],
         res   |-> Len(retained) <= before_len]

remove_object(s, object_id) ==
    LET before_len == Len(s.render_objects)
        retained   == Retain(s.render_objects, object_id)
    IN  [scene |-> [s EXCEPT !.render_objects = retained],
         res   |-> Len(retained) < before_len]

set_object_visible(s, object_id, visible) ==
    LET i == Find(s.render_objects, object_id)
    IN  IF i # 0
        THEN [scene |-> [s EXCEPT !.render_objects[i] = set_visible(@, visible)],
              res   |-> TRUE]
        ELSE [scene |-> s, res |-> FALSE]

\* The body of initialize after its `if self.initialized { return; }`.
\* create_shader and create_pipeline return an EngineResult and initialize
\* matches the Err variant of each (lines 93-100 and 122-131): shader_res and
\* pipeline_res are the variant the call returns.  ResourceManager::create_shader
\* as written ends in Ok and create_pipeline is given the shader just stored, so
\* the Err arms are the caller's handling of the declared result type.  failed
\* names the step initialize returned at, "" when it ran to the end.
initialize_body(s, new_manager, nh, data_of, shader_res, pipeline_res) ==
    LET s1        == [s EXCEPT !.resource_manager = new_manager]
        shader_id == ResourceId_new(<< S("basic_shader") >>)
        cs        == create_shader(s1.resource_manager, nh, shader_id)
        cp        == create_pipeline(cs.rm, cs.nh, s1.pipeline_id, shader_id)
        uniform   == update_view_proj(s1.camera)
        cb        == create_uniform_buffer(cp.rm, cp.nh,
                         ResourceId_new(<< S("camera_buffer") >>), uniform)
        bg        == create_bind_group(cb.rm, cb.nh,
                         ResourceId_new(<< S("camera_bind_group") >>))
    IN  IF shader_res = "Err"
        THEN [scene |-> s1, nh |-> nh, data_of |-> data_of, failed |-> "shader"]
        ELSE IF pipeline_res = "Err" \/ ~cp.res.ok
        THEN [scene   |-> [s1 EXCEPT !.resource_manager = cs.rm],
              nh      |-> cs.nh,
              data_of |-> data_of,
              failed  |-> "pipeline"]
        ELSE [scene   |-> [s1 EXCEPT !.resource_manager  = bg.rm,
                                     !.camera_uniform    = uniform,
                                     !.camera_buffer     = cb.res.val,
                                     !.camera_bind_group = bg.res.val,
                                     !.initialized       = TRUE],
              nh      |-> bg.nh,
              data_of |-> Insert(data_of, cb.res.val, cb.contents),
              failed  |-> ""]

\* initialize without the initialized guard
initialize_unguarded(s, new_manager, nh, data_of, shader_res, pipeline_res) ==
    initialize_body(s, new_manager, nh, data_of, shader_res, pipeline_res)

\* initialize that keeps the camera buffer it would have created when the
\* pipeline fails
initialize_buffer_early(s, new_manager, nh, data_of, shader_res, pipeline_res) ==
    LET r      == initialize_body(s, new_manager, nh, data_of, shader_res, pipeline_res)
        whole  == initialize_body(s, new_manager, nh, data_of, shader_res, "Ok")
    IN  IF s.initialized
        THEN [scene |-> s, nh |-> nh, data_of |-> data_of, failed |-> ""]
        ELSE IF r.failed = "pipeline"
        THEN [r EXCEPT !.scene.camera_buffer = whole.scene.camera_buffer]
        ELSE r

initialize(s, new_manager, nh, data_of, shader_res, pipeline_res) ==
    IF s.initialized
    THEN [scene |-> s, nh |-> nh, data_of |-> data_of, failed |-> ""]
    ELSE initialize_body(s, new_manager, nh, data_of, shader_res, pipeline_res)

\* get_render_objects that hands out the visible objects only
get_render_objects_visible(s) == SelectSeq(s.render_objects, LAMBDA o : o.visible)

get_render_objects(s) == s.render_objects

get_camera_bind_group(s) == s.camera_bind_group

get_camera_buffer(s) == s.camera_buffer

get_camera_uniform(s) == s.camera_uniform

\* update_camera_uniform that uploads the uniform without recomputing it
update_camera_uniform_stale(s, data_of) ==
    [scene   |-> s,
     data_of |-> IF s.camera_buffer # None /\ s.resource_manager.some
                 THEN update_uniform_buffer(data_of, s.camera_buffer, s.camera_uniform)
                 ELSE data_of]

update_camera_uniform(s, data_of) ==
    LET uniform == update_view_proj(s.camera)
    IN  [scene   |-> [s EXCEPT !.camera_uniform = uniform],
         data_of |-> IF s.camera_buffer # None /\ s.resource_manager.some
                     THEN update_uniform_buffer(data_of, s.camera_buffer, uniform)
                     ELSE data_of]

\* update: the ten `if input.is_key_pressed(key) { camera.op(amount) }` in
\* the order of the source; sign is the sign the amount is passed with
KeyBindings ==
    << << "KeyW", "move_forward", 1 >>,
       << "KeyS", "move_forward", -1 >>,
       << "KeyA", "move_right", -1 >>,
       << "KeyD", "move_right", 1 >>,
       << "KeyQ", "move_up", -1 >>,
       << "KeyE", "move_up", 1 >>,
       << "ArrowLeft", "rotate_horizontal", 1 >>,
       << "ArrowRight", "rotate_horizontal", -1 >>,
       << "ArrowUp", "rotate_vertical", 1 >>,
       << "ArrowDown", "rotate_vertical", -1 >> >>

ApplyBinding(c, op, sign, mv, rt) ==
    CASE op = "move_forward"      -> move_forward(c, sign * mv)
      [] op = "move_right"        -> move_right(c, sign * mv)
      [] op = "move_up"           -> move_up(c, sign * mv)
      [] op = "rotate_horizontal" -> rotate_horizontal(c, sign * rt)
      [] OTHER                    -> rotate_vertical(c, sign * rt)

RECURSIVE ApplyKeys(_, _, _, _, _)
ApplyKeys(c, keys, i, mv, rt) ==
    IF i > Len(KeyBindings) THEN c
    ELSE IF KeyBindings[i][1] \in keys
         THEN ApplyKeys(ApplyBinding(c, KeyBindings[i][2], KeyBindings[i][3], mv, rt),
                        keys, i + 1, mv, rt)
         ELSE ApplyKeys(c, keys, i + 1, mv, rt)

\* update that moves by the configured speeds whatever dt is
update_ignores_dt(s, dt, keys) ==
    [s EXCEPT !.camera = ApplyKeys(@, keys, 1, move_speed, rotation_speed)]

update(s, dt, keys) ==
    [s EXCEPT !.camera = ApplyKeys(@, keys, 1, move_speed * dt, rotation_speed * dt)]

(***************************************************************************)
(* Renderer::render_scene (graphics/renderer.rs); GraphicsEngine::render   *)
(* records the same pass inline (graphics/engine.rs lines 180-224).  The   *)
(* pass is the sequence of commands recorded into the encoder.             *)
(***************************************************************************)
\* DrawObjects whose indexed draw runs over the vertex count
RECURSIVE DrawObjects_vertex_range(_, _)
DrawObjects_vertex_range(objects, rm) ==
    IF objects = << >> THEN << >>
    ELSE
    LET object   == Head(objects)
        pipeline == get_pipeline(rm, object.pipeline_id)
        mesh     == get_mesh(rm, object.mesh_id)
        cmds     ==
            IF pipeline # None /\ mesh.vertex_buffer # None
            THEN << << "set_pipeline", pipeline, object.id >>,
                    << "set_vertex_buffer", 0, mesh.vertex_buffer >> >>
                 \o (IF mesh.index_buffer # None
                     THEN << << "set_index_buffer", mesh.index_buffer, object.id >>,
                             << "draw_indexed", mesh.vertex_count, object.id >> >>
                     ELSE << << "draw", mesh.vertex_count, object.id >> >>)
            ELSE << >>
    IN  cmds \o DrawObjects_vertex_range(Tail(objects), rm)

\* DrawObjects that leaves the loop at the first object it cannot draw
RECURSIVE DrawObjects_break(_, _)
DrawObjects_break(objects, rm) ==
    IF objects = << >> THEN << >>
    ELSE
    LET object   == Head(objects)
        pipeline == get_pipeline(rm, object.pipeline_id)
        mesh     == get_mesh(rm, object.mesh_id)
    IN  IF pipeline # None /\ mesh.vertex_buffer # None
        THEN << << "set_pipeline", pipeline, object.id >>,
                << "set_vertex_buffer", 0, mesh.vertex_buffer >> >>
             \o (IF mesh.index_buffer # None
                 THEN << << "set_index_buffer", mesh.index_buffer, object.id >>,
                         << "draw_indexed", mesh.index_count, object.id >> >>
                 ELSE << << "draw", mesh.vertex_count, object.id >> >>)
             \o DrawObjects_break(Tail(objects), rm)
        ELSE << >>

RECURSIVE DrawObjects(_, _)
DrawObjects(objects, rm) ==
    IF objects = << >> THEN << >>
    ELSE
    LET object   == Head(objects)
        pipeline == get_pipeline(rm, object.pipeline_id)
        mesh     == get_mesh(rm, object.mesh_id)
        cmds     ==
            IF pipeline # None /\ mesh.vertex_buffer # None
            THEN << << "set_pipeline", pipeline, object.id >>,
                    << "set_vertex_buffer", 0, mesh.vertex_buffer >> >>
                 \o (IF mesh.index_buffer # None
                     THEN << << "set_index_buffer", mesh.index_buffer, object.id >>,
                             << "draw_indexed", mesh.index_count, object.id >> >>
                     ELSE << << "draw", mesh.vertex_count, object.id >> >>)
            ELSE << >>
    IN  cmds \o DrawObjects(Tail(objects), rm)

render_scene(s, rm) ==
    << << "begin_render_pass" >> >>
    \o (IF get_camera_bind_group(s) # None
        THEN << << "set_bind_group", 0, get_camera_bind_group(s) >> >>
        ELSE << >>)
    \o DrawObjects(get_render_objects(s), rm)
    \o << << "end_render_pass" >> >>

(***************************************************************************)
(* SurfaceManager (graphics/surface_manager.rs) and GraphicsEngine         *)
(* (graphics/engine.rs).                                                   *)
(***************************************************************************)
IsSrgb(format) == format = "Bgra8UnormSrgb"

\* caps.formats.iter().copied().find(|f| f.is_srgb()).unwrap_or(caps.formats[0])
RECURSIVE FindSrgb(_, _)
FindSrgb(formats, i) ==
    IF i > Len(formats) THEN formats[1]
    ELSE IF IsSrgb(formats[i]) THEN formats[i]
    ELSE FindSrgb(formats, i + 1)

SurfaceManager_new(formats, width, height, vsync) ==
    [format       |-> FindSrgb(formats, 1),
     width        |-> width,
     height       |-> height,
     present_mode |-> IF vsync THEN "Fifo" ELSE "Immediate",
     configured   |-> << width, height >>]

\* resize that returns early only when both dimensions are 0
SurfaceManager_resize_both(config, width, height) ==
    IF width = 0 /\ height = 0 THEN config
    ELSE [config EXCEPT !.width = width, !.height = height,
                        !.configured = << width, height >>]

\* resize: configured is the size of the last surface.configure call
SurfaceManager_resize(config, width, height) ==
    IF width = 0 \/ height = 0 THEN config
    ELSE [config EXCEPT !.width = width, !.height = height,
                        !.configured = << width, height >>]

\* get_current_texture: surface_ok is whether the surface hands out a texture
acquire_frame(surface_ok) == IF surface_ok THEN Ok(1) ELSE Err("RenderError")

GraphicsEngine_resize(config, width, height) ==
    IF width = 0 \/ height = 0 THEN config
    ELSE [config EXCEPT !.width = width, !.height = height,
                        !.configured = << width, height >>]

\* GraphicsEngine::new after the adapter, the device and the surface were
\* obtained: the surface configuration, the resource manager and the
\* initialized scene.  scene.initialize returns nothing, so the Ok(engine) at
\* the end does not depend on how it went.
GraphicsEngine_new(gpu, formats, width, height, s, nh, data_of, shader_res, pipeline_res) ==
    IF gpu = "no_adapter" THEN [res |-> Err("AdapterRequest")]
    ELSE IF gpu = "no_device" THEN [res |-> Err("DeviceRequest")]
    ELSE IF gpu = "no_surface" THEN [res |-> Err("SurfaceCreation")]
    ELSE
    LET surface_format == FindSrgb(formats, 1)
        config == [format       |-> surface_format,
                   width        |-> width,
                   height       |-> height,
                   present_mode |-> "Fifo",
                   configured   |-> << width, height >>]
        init   == initialize(s, ResourceManager_new(surface_format), nh, data_of,
                             shader_res, pipeline_res)
    IN  [res |-> Ok(1), config |-> config, scene |-> init.scene, nh |-> init.nh,
         data_of |-> init.data_of, failed |-> init.failed]

\* render that uploads the camera uniform after the pass is recorded
render_upload_last(s, data_of, dt, keys, surface_ok) ==
    LET s1       == update(s, dt, keys)
        acquired == acquire_frame(surface_ok)
        pass     == render_scene(s1, s1.resource_manager)
        sync     == update_camera_uniform(s1, data_of)
    IN  IF ~acquired.ok
        THEN [scene |-> s1, data_of |-> data_of, res |-> acquired,
              trace |-> << << "update" >>, << "acquire_failed" >> >>]
        ELSE [scene |-> sync.scene, data_of |-> sync.data_of, res |-> Ok(0),
              trace |-> << << "update" >>, << "acquire_frame" >> >>
                        \o pass
                        \o << << "update_camera_uniform" >>,
                              << "submit" >>, << "present" >> >>]

\* render that uploads the camera uniform before it acquires the frame
render_upload_first(s, data_of, dt, keys, surface_ok) ==
    LET s1       == update(s, dt, keys)
        sync     == update_camera_uniform(s1, data_of)
        acquired == acquire_frame(surface_ok)
        pass     == render_scene(sync.scene, sync.scene.resource_manager)
    IN  IF ~acquired.ok
        THEN [scene |-> sync.scene, data_of |-> sync.data_of, res |-> acquired,
              trace |-> << << "update" >>, << "update_camera_uniform" >>,
                           << "acquire_failed" >> >>]
        ELSE [scene |-> sync.scene, data_of |-> sync.data_of, res |-> Ok(0),
              trace |-> << << "update" >>, << "update_camera_uniform" >>,
                           << "acquire_frame" >> >>
                        \o pass
                        \o << << "submit" >>, << "present" >> >>]

\* render that reports the acquisition error after it submitted and presented
render_error_last(s, data_of, dt, keys, surface_ok) ==
    LET s1       == update(s, dt, keys)
        acquired == acquire_frame(surface_ok)
        sync     == update_camera_uniform(s1, data_of)
        pass     == render_scene(sync.scene, sync.scene.resource_manager)
    IN  [scene |-> sync.scene, data_of |-> sync.data_of,
         res   |-> IF acquired.ok THEN Ok(0) ELSE acquired,
         trace |-> << << "update" >>,
                      << IF acquired.ok THEN "acquire_frame" ELSE "acquire_failed" >>,
                      << "update_camera_uniform" >> >>
                   \o pass
                   \o << << "submit" >>, << "present" >> >>]

\* GraphicsEngine::render: the steps of one call in order, as the trace of the
\* frame.  The engine's resource manager is the one the scene was initialized
\* with.
render(s, data_of, dt, keys, surface_ok) ==
    LET s1       == update(s, dt, keys)
        acquired == acquire_frame(surface_ok)
        sync     == update_camera_uniform(s1, data_of)
        s2       == sync.scene
        data2    == IF get_camera_buffer(s2) # None
                    THEN update_uniform_buffer(sync.data_of, get_camera_buffer(s2),
                                               get_camera_uniform(s2))
                    ELSE sync.data_of
        pass     == render_scene(s2, s2.resource_manager)
    IN  IF ~acquired.ok
        THEN [scene |-> s1, data_of |-> data_of, res |-> acquired,
              trace |-> << << "update" >>, << "acquire_failed" >> >>]
        ELSE [scene |-> s2, data_of |-> data2, res |-> Ok(0),
              trace |-> << << "update" >>, << "acquire_frame" >>,
                           << "update_camera_uniform" >> >>
                        \o pass
                        \o << << "submit" >>, << "present" >> >>]

(***************************************************************************)
(* InputState (input/mod.rs).                                              *)
(***************************************************************************)
InputState_new ==
    [keys_pressed    |-> {},
     mouse_buttons   |-> {},
     mouse_posittion |-> << 0, 0 >>,
     mouse_delta     |-> << 0, 0 >>]

process_keybord(input, keycode, pressed) ==
    IF pressed
    THEN [input EXCEPT !.keys_pressed = @ \cup {keycode}]
    ELSE [input EXCEPT !.keys_pressed = @ \ {keycode}]

is_key_pressed(input, key) == key \in input.keys_pressed

process_mouse_input(input, button, pressed) ==
    IF pressed
    THEN [input EXCEPT !.mouse_buttons = @ \cup {button}]
    ELSE [input EXCEPT !.mouse_buttons = @ \ {button}]

set_mouse_position(input, x, y) ==
    [input EXCEPT !.mouse_delta = << x - input.mouse_posittion[1],
                                     y - input.mouse_posittion[2] >>,
                  !.mouse_posittion = << x, y >>]

\* reset_mouse_delta that also forgets where the mouse is
reset_mouse_delta_and_position(input) ==
    [input EXCEPT !.mouse_delta = << 0, 0 >>, !.mouse_posittion = << 0, 0 >>]

reset_mouse_delta(input) == [input EXCEPT !.mouse_delta = << 0, 0 >>]

(***************************************************************************)
(* SceneManager (scene/manager.rs) as App::resumed uses it.                *)
(***************************************************************************)
SceneId_new(name) == HashFold(7, name)

SceneManager_new == [scenes |-> EmptyMap, current_scene_id |-> None]

register_scene(sm, id, scene) == [sm EXCEPT !.scenes = Insert(@, id, scene)]

\* set_current_scene that selects the id without looking it up
set_current_scene_unchecked(sm, id) ==
    [sm |-> [sm EXCEPT !.current_scene_id = id], res |-> Ok(0)]

set_current_scene(sm, id) ==
    IF id \in DOMAIN sm.scenes
    THEN [sm |-> [sm EXCEPT !.current_scene_id = id], res |-> Ok(0)]
    ELSE [sm |-> sm, res |-> Err("SceneNotFound")]

\* take_current_scene that hands out the scene and keeps its entry
take_current_scene_keep(sm) ==
    IF sm.current_scene_id # None
    THEN [sm  |-> [sm EXCEPT !.current_scene_id = None],
          res |-> Removed(sm.scenes, sm.current_scene_id)]
    ELSE [sm |-> sm, res |-> << >>]

\* Option<Box<dyn Scene>>: the empty sequence for None
take_current_scene(sm) ==
    IF sm.current_scene_id # None
    THEN [sm  |-> [sm EXCEPT !.current_scene_id = None,
                             !.scenes = Remove(@, sm.current_scene_id)],
          res |-> Removed(sm.scenes, sm.current_scene_id)]
    ELSE [sm |-> sm, res |-> << >>]

get_current_scene_mut(sm) ==
    IF sm.current_scene_id # None
    THEN Removed(sm.scenes, sm.current_scene_id)
    ELSE << >>

(***************************************************************************)
(* The values the environment supplies.                                    *)
(***************************************************************************)
\* what the platform answers to the adapter, device and surface requests
GpuOutcomes == {"ok", "no_adapter", "no_device", "no_surface"}

\* surface_caps.formats
FormatCaps == { << "Bgra8Unorm", "Bgra8UnormSrgb" >>, << "Bgra8Unorm" >> }

Results == {"Ok", "Err"}

\* frame times dt, in whole units
DtSet == {0, 1}

\* the keys the window delivers
PressableKeys == {"KeyW", "Escape"}

MouseButtons == {"Left"}

MousePositions == { << 0, 0 >>, << 1, 2 >> }

Dims == 0 .. MaxDim

\* AppConfig::default: window 800 x 600
WindowAspect == << 800, 600 >>

CoordInBounds(v) ==
    v.nan \/ (Abs(v.x) <= MaxCoord /\ Abs(v.y) <= MaxCoord /\ Abs(v.z) <= MaxCoord)

CameraInBounds(c) == CoordInBounds(c.eye) /\ CoordInBounds(c.target)

\* last is the last operation called, its arguments and what it returned; the
\* operation's name leads both lists
Call(op, args, res) == [op |-> op, args |-> << op >> \o args, res |-> << op, res >>]

Arg(call, i) == call.args[i + 1]

Result(call) == call.res[2]

NoLast == Call("none", << >>, FALSE)

NoFrame == [trace |-> << >>, res |-> Ok(0), rendered |-> FALSE]

NoSurface ==
    [format |-> "none", width |-> 0, height |-> 0, present_mode |-> "none",
     configured |-> << 0, 0 >>]

App_new ==
    [resumed          |-> FALSE,
     window           |-> FALSE,
     engine           |-> FALSE,
     exited           |-> FALSE,
     redraw_requested |-> FALSE,
     logged           |-> {},
     init_failed      |-> "",
     scene_manager    |-> SceneManager_new]

(***************************************************************************)
(* App (app/mod.rs): the handlers of the winit events.                     *)
(***************************************************************************)
\* the variables of a scene just built by DemoScene::new
SceneIsNew ==
    LET s == DemoScene_new(WindowAspect)
    IN  /\ render_objects    = s.render_objects
        /\ camera            = s.camera
        /\ camera_uniform    = s.camera_uniform
        /\ camera_buffer     = s.camera_buffer
        /\ camera_bind_group = s.camera_bind_group
        /\ initialized       = s.initialized

\* the state before any operation, around the given resource manager and threads
InitWith(manager, threads) ==
    /\ next_handle = 1
    /\ SceneIsNew
    /\ resource_manager = manager
    /\ buffer_data = EmptyMap
    /\ NEXT_OBJECT_ID = 1
    /\ callers = threads
    /\ surface_config = NoSurface
    /\ last_valid_size = << 0, 0 >>
    /\ frame = NoFrame
    /\ app = App_new
    /\ input_state = InputState_new
    /\ last = NoLast

\* App::resumed: the window, the scene handed from the scene manager to
\* GraphicsEngine::new, and the engine or the logged error.
resumed(gpu, formats, width, height, shader_res, pipeline_res) ==
    LET scene_id == SceneId_new(<< S("Demo_Scene") >>)
        sm1      == register_scene(app.scene_manager, scene_id,
                                   DemoScene_new(WindowAspect))
        cur      == set_current_scene(sm1, scene_id)
        taken    == take_current_scene(cur.sm)
        made     == GraphicsEngine_new(gpu, formats, width, height,
                                       Head(taken.res), next_handle,
                                       buffer_data, shader_res, pipeline_res)
    IN  /\ ~app.resumed
        /\ cur.res.ok
        /\ taken.res # << >>
        /\ UNCHANGED << idVars, input_state, frame, last >>
        /\ IF made.res.ok
           THEN /\ app' = [app EXCEPT !.resumed = TRUE, !.window = TRUE,
                                      !.engine = TRUE, !.redraw_requested = TRUE,
                                      !.init_failed = made.failed,
                                      !.logged = IF made.failed # ""
                                                 THEN @ \cup {"Failed to create " \o made.failed}
                                                 ELSE @,
                                      !.scene_manager = taken.sm]
                /\ SetScene(made.scene)
                /\ next_handle' = made.nh
                /\ buffer_data' = made.data_of
                /\ surface_config' = made.config
                /\ last_valid_size' = << width, height >>
           ELSE /\ app' = [app EXCEPT !.resumed = TRUE,
                                      !.logged = @ \cup {"Graphics engine initialization error"},
                                      !.scene_manager = taken.sm]
                /\ UNCHANGED << rmVars, sceneVars, surface_config, last_valid_size >>

Delivered == app.window /\ ~app.exited

CloseRequested ==
    /\ Delivered
    /\ app' = [app EXCEPT !.exited = TRUE]
    /\ UNCHANGED << rmVars, sceneVars, idVars, gfxVars, input_state, last >>

Resized(width, height) ==
    /\ Delivered
    /\ surface_config' = IF app.engine
                         THEN GraphicsEngine_resize(surface_config, width, height)
                         ELSE surface_config
    /\ last_valid_size' = IF app.engine /\ width # 0 /\ height # 0
                          THEN << width, height >> ELSE last_valid_size
    /\ UNCHANGED << rmVars, sceneVars, idVars, frame, appVars, last >>

\* RedrawRequested: render when there is an engine, log an error, reset the
\* mouse delta and request the next redraw.  Delivering the event consumes the
\* pending request.
RedrawRequested(dt, surface_ok) ==
    LET r == render(Scene, buffer_data, dt, input_state.keys_pressed, surface_ok)
    IN  /\ Delivered
        /\ app.redraw_requested
        /\ IF app.engine
           THEN /\ CameraInBounds(r.scene.camera)
                /\ SetScene(r.scene)
                /\ buffer_data' = r.data_of
                /\ frame' = [trace |-> r.trace, res |-> r.res, rendered |-> TRUE]
                /\ app' = [app EXCEPT !.logged = IF r.res.ok THEN @
                                                 ELSE @ \cup {"Rendering error"},
                                      !.redraw_requested = app.window]
           ELSE /\ UNCHANGED << sceneVars, resource_manager, buffer_data, frame >>
                /\ app' = [app EXCEPT !.redraw_requested = app.window]
        /\ input_state' = reset_mouse_delta(input_state)
        /\ UNCHANGED << next_handle, idVars, surface_config, last_valid_size, last >>

KeyboardInput(keycode, pressed) ==
    LET input == process_keybord(input_state, keycode, pressed)
    IN  /\ Delivered
        /\ input_state' = input
        /\ app' = [app EXCEPT !.exited = is_key_pressed(input, "Escape"),
                              !.redraw_requested = @ \/ app.window]
        /\ UNCHANGED << rmVars, sceneVars, idVars, gfxVars, last >>

MouseInput(button, pressed) ==
    /\ Delivered
    /\ input_state' = process_mouse_input(input_state, button, pressed)
    /\ UNCHANGED << rmVars, sceneVars, idVars, gfxVars, app, last >>

CursorMoved(x, y) ==
    /\ Delivered
    /\ input_state' = set_mouse_position(input_state, x, y)
    /\ UNCHANGED << rmVars, sceneVars, idVars, gfxVars, app, last >>

Init == InitWith(DemoScene_new(WindowAspect).resource_manager, << >>)

Next ==
    \/ \E gpu \in GpuOutcomes, formats \in FormatCaps, w \in 1 .. MaxDim,
          h \in 1 .. MaxDim, sr \in Results, pr \in Results :
           resumed(gpu, formats, w, h, sr, pr)
    \/ CloseRequested
    \/ \E w \in Dims, h \in Dims : Resized(w, h)
    \/ \E dt \in DtSet, surface_ok \in BOOLEAN : RedrawRequested(dt, surface_ok)
    \/ \E k \in PressableKeys, pressed \in BOOLEAN : KeyboardInput(k, pressed)
    \/ \E b \in MouseButtons, pressed \in BOOLEAN : MouseInput(b, pressed)
    \/ \E pos \in MousePositions : CursorMoved(pos[1], pos[2])

Spec == Init /\ [][Next]_vars

(***************************************************************************)
(* SpecScene: the operations of the Scene trait on one DemoScene, called   *)
(* in any order with any arguments.                                        *)
(***************************************************************************)
ObjectTypes == {"Quad", "Triangle"}

Positions == { V(0, 0, 0), V(1, 0, 0) }

ObjectIds == 1 .. MaxObjects

SceneKeySets == { {"KeyW"} }

Scene_initialize(shader_res, pipeline_res) ==
    LET r == initialize(Scene, ResourceManager_new("Bgra8UnormSrgb"), next_handle,
                        buffer_data, shader_res, pipeline_res)
    IN  /\ r.nh <= MaxHandles + 1
        /\ SetScene(r.scene)
        /\ next_handle' = r.nh
        /\ buffer_data' = r.data_of
        /\ last' = Call("initialize", << shader_res, pipeline_res >>, r.failed)
        /\ UNCHANGED << idVars, gfxVars, appVars >>

\* add_object on a scene without a resource manager panics: no step
Scene_add_object(object_type, position) ==
    LET r == add_object(Scene, next_handle, NEXT_OBJECT_ID, object_type, position)
    IN  /\ resource_manager.some
        /\ NEXT_OBJECT_ID <= MaxObjects
        /\ r.nh <= MaxHandles + 1
        /\ SetScene(r.scene)
        /\ next_handle' = r.nh
        /\ NEXT_OBJECT_ID' = r.counter
        /\ last' = Call("add_object", << object_type, position >>, r.res)
        /\ UNCHANGED << buffer_data, callers, gfxVars, appVars >>

Scene_remove_object(object_id) ==
    LET r == remove_object(Scene, object_id)
    IN  /\ SetScene(r.scene)
        /\ last' = Call("remove_object", << object_id >>, r.res)
        /\ UNCHANGED << next_handle, buffer_data, idVars, gfxVars, appVars >>

Scene_move_object(object_id, position) ==
    LET r == move_object(Scene, object_id, position)
    IN  /\ SetScene(r.scene)
        /\ last' = Call("move_object", << object_id, position >>, r.res)
        /\ UNCHANGED << next_handle, buffer_data, idVars, gfxVars, appVars >>

Scene_set_object_visible(object_id, visible) ==
    LET r == set_object_visible(Scene, object_id, visible)
    IN  /\ SetScene(r.scene)
        /\ last' = Call("set_object_visible", << object_id, visible >>, r.res)
        /\ UNCHANGED << next_handle, buffer_data, idVars, gfxVars, appVars >>

Scene_update(dt, keys) ==
    LET s == update(Scene, dt, keys)
    IN  /\ CameraInBounds(s.camera)
        /\ SetScene(s)
        /\ last' = Call("update", << dt, keys >>, TRUE)
        /\ UNCHANGED << next_handle, buffer_data, idVars, gfxVars, appVars >>

Scene_update_camera_uniform ==
    LET r == update_camera_uniform(Scene, buffer_data)
    IN  /\ SetScene(r.scene)
        /\ buffer_data' = r.data_of
        /\ last' = Call("update_camera_uniform", << >>, TRUE)
        /\ UNCHANGED << next_handle, idVars, gfxVars, appVars >>

NextScene ==
    \/ \E sr \in Results, pr \in Results : Scene_initialize(sr, pr)
    \/ \E t \in ObjectTypes, pos \in Positions : Scene_add_object(t, pos)
    \/ \E id \in ObjectIds : Scene_remove_object(id)
    \/ \E id \in ObjectIds, pos \in Positions : Scene_move_object(id, pos)
    \/ \E id \in ObjectIds, v \in BOOLEAN : Scene_set_object_visible(id, v)
    \/ \E dt \in DtSet, keys \in SceneKeySets : Scene_update(dt, keys)
    \/ Scene_update_camera_uniform

InitScene == InitWith(DemoScene_new(WindowAspect).resource_manager, << >>)

SpecScene == InitScene /\ [][NextScene]_vars

(***************************************************************************)
(* SpecRM: the operations of one ResourceManager, called in any order.     *)
(***************************************************************************)
RmIds == { ResourceId_new(<< S("basic_shader") >>),
           ResourceId_new(<< S("basic_pipeline") >>) }

RmData == { CameraUniform_new, build_view_proj_matrix(Camera_new(WindowAspect)) }

InitRM == InitWith(ResourceManager_new("Bgra8UnormSrgb"), << >>)

RmStep(r, op, args) ==
    /\ r.nh <= MaxRmHandles + 1
    /\ resource_manager' = r.rm
    /\ next_handle' = r.nh
    /\ last' = Call(op, args, r.res)
    /\ UNCHANGED << sceneVars, idVars, gfxVars, appVars >>

RM_create_buffer_with_data(id, data) ==
    LET r == create_buffer_with_data(resource_manager, next_handle, id, data)
    IN  /\ RmStep(r, "create_buffer_with_data", << id >>)
        /\ buffer_data' = Insert(buffer_data, r.res.val, r.contents)

RM_create_uniform_buffer(id, data) ==
    LET r == create_uniform_buffer(resource_manager, next_handle, id, data)
    IN  /\ RmStep(r, "create_uniform_buffer", << id >>)
        /\ buffer_data' = Insert(buffer_data, r.res.val, r.contents)

RM_update_uniform_buffer(buffer, data) ==
    /\ buffer \in DOMAIN buffer_data
    /\ buffer_data' = update_uniform_buffer(buffer_data, buffer, data)
    /\ last' = Call("update_uniform_buffer", << buffer >>, TRUE)
    /\ UNCHANGED << resource_manager, next_handle, sceneVars, idVars, gfxVars, appVars >>

RM_create_shader(id) ==
    /\ RmStep(create_shader(resource_manager, next_handle, id), "create_shader", << id >>)
    /\ UNCHANGED buffer_data

RM_create_pipeline(id, shader_id) ==
    /\ RmStep(create_pipeline(resource_manager, next_handle, id, shader_id),
              "create_pipeline", << id, shader_id >>)
    /\ UNCHANGED buffer_data

RM_create_bind_group(id) ==
    /\ RmStep(create_bind_group(resource_manager, next_handle, id),
              "create_bind_group", << id >>)
    /\ UNCHANGED buffer_data

RM_register_mesh(id, object_type) ==
    LET m == IF object_type = "Quad" THEN Quad_create_mesh(next_handle)
             ELSE Triangle_create_mesh(next_handle)
    IN  /\ RmStep([rm  |-> register_mesh(resource_manager, id, m.mesh),
                   nh  |-> m.nh,
                   res |-> m.mesh],
                  "register_mesh", << id >>)
        /\ UNCHANGED buffer_data

NextRM ==
    \/ \E id \in RmIds, d \in RmData : RM_create_buffer_with_data(id, d)
    \/ \E id \in RmIds, d \in RmData : RM_create_uniform_buffer(id, d)
    \/ \E b \in 1 .. MaxRmHandles, d \in RmData : RM_update_uniform_buffer(b, d)
    \/ \E id \in RmIds : RM_create_shader(id)
    \/ \E id \in RmIds, sid \in RmIds : RM_create_pipeline(id, sid)
    \/ \E id \in RmIds : RM_create_bind_group(id)
    \/ \E id \in RmIds, t \in ObjectTypes : RM_register_mesh(id, t)

SpecRM == InitRM /\ [][NextRM]_vars

(***************************************************************************)
(* SpecObjectId: threads that build RenderObjects, each taking its id from *)
(* the one static counter.                                                 *)
(***************************************************************************)
Callers == 1 .. MaxCallers

InitObjectId ==
    InitWith(DemoScene_new(WindowAspect).resource_manager,
             [t \in Callers |-> [pc |-> "idle", ids |-> << >>]])

\* a thread enters RenderObject::new
Caller_new(t) ==
    /\ callers[t].pc = "idle"
    /\ callers' = [callers EXCEPT ![t].pc = "new"]
    /\ UNCHANGED << rmVars, sceneVars, NEXT_OBJECT_ID, gfxVars, appVars, last >>

\* ObjectId::generate inside it
Caller_generate(t) ==
    LET g == ObjectId_generate(NEXT_OBJECT_ID)
    IN  /\ callers[t].pc = "new"
        /\ NEXT_OBJECT_ID <= MaxGenerate
        /\ NEXT_OBJECT_ID' = g.counter
        /\ callers' = [callers EXCEPT ![t].pc = "generated",
                                      ![t].ids = Append(@, g.id)]
        /\ last' = Call("generate", << t >>, g.id)
        /\ UNCHANGED << rmVars, sceneVars, gfxVars, appVars >>

\* the object is returned to the thread
Caller_return(t) ==
    /\ callers[t].pc = "generated"
    /\ callers' = [callers EXCEPT ![t].pc = "idle"]
    /\ UNCHANGED << rmVars, sceneVars, NEXT_OBJECT_ID, gfxVars, appVars, last >>

NextObjectId ==
    \/ \E t \in Callers : Caller_new(t)
    \/ \E t \in Callers : Caller_generate(t)
    \/ \E t \in Callers : Caller_return(t)

SpecObjectId == InitObjectId /\ [][NextObjectId]_vars

(***************************************************************************)
(* SpecSurface: one SurfaceManager, resized and asked for frames.          *)
(***************************************************************************)
InitSurface ==
    /\ SceneIsNew
    /\ resource_manager = DemoScene_new(WindowAspect).resource_manager
    /\ next_handle = 1
    /\ buffer_data = EmptyMap
    /\ NEXT_OBJECT_ID = 1
    /\ callers = << >>
    /\ \E formats \in FormatCaps, w \in 1 .. MaxDim, h \in 1 .. MaxDim, vsync \in BOOLEAN :
           /\ surface_config = SurfaceManager_new(formats, w, h, vsync)
           /\ last_valid_size = << w, h >>
    /\ frame = NoFrame
    /\ app = App_new
    /\ input_state = InputState_new
    /\ last = NoLast

SM_resize(width, height) ==
    /\ surface_config' = SurfaceManager_resize(surface_config, width, height)
    /\ last_valid_size' = IF width # 0 /\ height # 0
                          THEN << width, height >> ELSE last_valid_size
    /\ last' = Call("resize", << width, height >>, TRUE)
    /\ UNCHANGED << rmVars, sceneVars, idVars, frame, appVars >>

SM_acquire_frame(surface_ok) ==
    /\ frame' = [trace |-> << >>, res |-> acquire_frame(surface_ok), rendered |-> FALSE]
    /\ last' = Call("acquire_frame", << surface_ok >>, acquire_frame(surface_ok).ok)
    /\ UNCHANGED << rmVars, sceneVars, idVars, surface_config, last_valid_size, appVars >>

NextSurface ==
    \/ \E w \in Dims, h \in Dims : SM_resize(w, h)
    \/ \E surface_ok \in BOOLEAN : SM_acquire_frame(surface_ok)

SpecSurface == InitSurface /\ [][NextSurface]_vars

(***************************************************************************)
(* SpecRender: a DemoScene whose object list changes, drawn by             *)
(* Renderer::render_scene with the resource manager it is handed.          *)
(***************************************************************************)
MaxAdds == 3

MaxRenderHandles == 10

\* HashMap entries under the given keys only
Restrict(m, keys) == [x \in (DOMAIN m) \cap keys |-> m[x]]

\* render_scene takes the resource manager as a parameter of its own: the
\* scene's manager, or one in which only some of its pipelines and meshes were
\* created
Managers(rm) ==
    { [rm EXCEPT !.pipelines = Restrict(@, P), !.meshes = Restrict(@, M)] :
          P \in SUBSET DOMAIN rm.pipelines, M \in SUBSET DOMAIN rm.meshes }

Render_initialize ==
    LET r == initialize(Scene, ResourceManager_new("Bgra8UnormSrgb"), next_handle,
                        buffer_data, "Ok", "Ok")
    IN  /\ r.nh <= MaxRenderHandles + 1
        /\ SetScene(r.scene)
        /\ next_handle' = r.nh
        /\ buffer_data' = r.data_of
        /\ last' = Call("initialize", << "Ok", "Ok" >>, r.failed)
        /\ UNCHANGED << idVars, gfxVars, appVars >>

Render_add_object(object_type) ==
    LET r == add_object(Scene, next_handle, NEXT_OBJECT_ID, object_type, V(0, 0, 0))
    IN  /\ resource_manager.some
        /\ NEXT_OBJECT_ID <= MaxAdds
        /\ r.nh <= MaxRenderHandles + 1
        /\ SetScene(r.scene)
        /\ next_handle' = r.nh
        /\ NEXT_OBJECT_ID' = r.counter
        /\ last' = Call("add_object", << object_type, V(0, 0, 0) >>, r.res)
        /\ UNCHANGED << buffer_data, callers, gfxVars, appVars >>

Renderer_render_scene(rm) ==
    /\ frame' = [trace |-> render_scene(Scene, rm), res |-> Ok(0), rendered |-> TRUE]
    /\ last' = Call("render_scene", << rm >>, TRUE)
    /\ UNCHANGED << rmVars, sceneVars, idVars, surface_config, last_valid_size, appVars >>

NextRender ==
    \/ Render_initialize
    \/ \E t \in ObjectTypes : Render_add_object(t)
    \/ \E id \in 1 .. MaxAdds : Scene_remove_object(id)
    \/ \E id \in 1 .. MaxAdds, v \in BOOLEAN : Scene_set_object_visible(id, v)
    \/ \E rm \in Managers(resource_manager) : Renderer_render_scene(rm)

InitRender == InitWith(DemoScene_new(WindowAspect).resource_manager, << >>)

SpecRender == InitRender /\ [][NextRender]_vars

(***************************************************************************)
(* SpecFrame: one DemoScene without objects under the calls that move its  *)
(* camera and synchronize the camera uniform: GraphicsEngine::render,      *)
(* whose first step is Scene::update and which stops there when no frame   *)
(* can be acquired, and update_camera_uniform, before and after            *)
(* initialize.                                                             *)
(***************************************************************************)
FrameKeySets == { {"KeyW"}, {"KeyD"}, {"ArrowLeft"} }

Engine_render(dt, keys, surface_ok) ==
    LET r == render(Scene, buffer_data, dt, keys, surface_ok)
    IN  /\ CameraInBounds(r.scene.camera)
        /\ SetScene(r.scene)
        /\ buffer_data' = r.data_of
        /\ frame' = [trace |-> r.trace, res |-> r.res, rendered |-> TRUE]
        /\ last' = Call("render", << dt, keys, surface_ok >>, r.res.ok)
        /\ UNCHANGED << next_handle, idVars, surface_config, last_valid_size, appVars >>

NextFrame ==
    \/ Render_initialize
    \/ Scene_update_camera_uniform
    \/ \E dt \in DtSet, keys \in FrameKeySets, surface_ok \in BOOLEAN :
           Engine_render(dt, keys, surface_ok)

InitFrame == InitWith(DemoScene_new(WindowAspect).resource_manager, << >>)

SpecFrame == InitFrame /\ [][NextFrame]_vars

(***************************************************************************)
(* SpecCamera: the movement and rotation methods of one Camera, starting   *)
(* from Camera::new and called in any order.                               *)
(***************************************************************************)
\* the distances d passed to the move methods
CameraDeltas == {-8, 8}

\* the angles passed to the rotate methods, in quarter turns
CameraAngles == {-1, 1}

VecWithin(v) ==
    v.nan \/ (Abs(v.x) <= MaxCameraCoord /\ Abs(v.y) <= MaxCameraCoord
                /\ Abs(v.z) <= MaxCameraCoord)

CameraStep(c, op, arg) ==
    /\ VecWithin(c.eye) /\ VecWithin(c.target)
    /\ camera' = c
    /\ last' = Call(op, << arg >>, TRUE)
    /\ UNCHANGED << rmVars, render_objects, camera_uniform, camera_buffer,
                    camera_bind_group, initialized, idVars, gfxVars, appVars >>

Camera_move_forward(delta) ==
    CameraStep(move_forward(camera, delta), "move_forward", delta)

Camera_move_right(delta) ==
    CameraStep(move_right(camera, delta), "move_right", delta)

Camera_move_up(delta) ==
    CameraStep(move_up(camera, delta), "move_up", delta)

Camera_rotate_horizontal(angle) ==
    CameraStep(rotate_horizontal(camera, angle), "rotate_horizontal", angle)

Camera_rotate_vertical(angle) ==
    CameraStep(rotate_vertical(camera, angle), "rotate_vertical", angle)

NextCamera ==
    \/ \E d \in CameraDeltas : Camera_move_forward(d)
    \/ \E d \in CameraDeltas : Camera_move_right(d)
    \/ \E d \in CameraDeltas : Camera_move_up(d)
    \/ \E q \in CameraAngles : Camera_rotate_horizontal(q)
    \/ \E q \in CameraAngles : Camera_rotate_vertical(q)

InitCamera == InitWith(DemoScene_new(WindowAspect).resource_manager, << >>)

SpecCamera == InitCamera /\ [][NextCamera]_vars

(***************************************************************************)
(* SpecUpdate: Scene::update on a DemoScene, frame after frame, with no    *)
(* key, the W key or the S key held, before and after initialize and the  *)
(* addition of an object.                                                  *)
(***************************************************************************)
UpdateKeySets == { {}, {"KeyW"}, {"KeyS"} }

Update_update(dt, keys) ==
    LET s == update(Scene, dt, keys)
    IN  /\ VecWithin(s.camera.eye) /\ VecWithin(s.camera.target)
        /\ SetScene(s)
        /\ last' = Call("update", << dt, keys >>, TRUE)
        /\ UNCHANGED << next_handle, buffer_data, idVars, gfxVars, appVars >>

Update_add_object(object_type) ==
    /\ NEXT_OBJECT_ID <= MaxUpdateObjects
    /\ Render_add_object(object_type)

NextUpdate ==
    \/ Render_initialize
    \/ \E t \in ObjectTypes : Update_add_object(t)
    \/ \E dt \in DtSet, keys \in UpdateKeySets : Update_update(dt, keys)

InitUpdate == InitWith(DemoScene_new(WindowAspect).resource_manager, << >>)

SpecUpdate == InitUpdate /\ [][NextUpdate]_vars

(***************************************************************************)
(* SpecSceneManager: the operations of one SceneManager, called in any     *)
(* order.  A scene is the handle of its Box, allocated when it is          *)
(* registered: a Box is moved into register_scene, so no scene is          *)
(* registered twice.                                                       *)
(***************************************************************************)
SceneIds == { SceneId_new(<< S("Demo_Scene") >>), SceneId_new(<< S("Other_Scene") >>) }

SceneManager == app.scene_manager

SMgr_step(sm, op, args, res) ==
    /\ app' = [app EXCEPT !.scene_manager = sm]
    /\ last' = Call(op, args, res)
    /\ UNCHANGED << resource_manager, buffer_data, sceneVars, idVars, gfxVars,
                    input_state >>

SMgr_register_scene(id) ==
    /\ next_handle <= MaxScenes
    /\ next_handle' = next_handle + 1
    /\ SMgr_step(register_scene(SceneManager, id, next_handle), "register_scene",
                 << id, next_handle >>, TRUE)

SMgr_set_current_scene(id) ==
    LET r == set_current_scene(SceneManager, id)
    IN  /\ SMgr_step(r.sm, "set_current_scene", << id >>, r.res)
        /\ UNCHANGED next_handle

SMgr_take_current_scene ==
    LET r == take_current_scene(SceneManager)
    IN  /\ SMgr_step(r.sm, "take_current_scene", << >>, r.res)
        /\ UNCHANGED next_handle

SMgr_get_current_scene_mut ==
    /\ SMgr_step(SceneManager, "get_current_scene_mut", << >>,
                 get_current_scene_mut(SceneManager))
    /\ UNCHANGED next_handle

NextSceneManager ==
    \/ \E id \in SceneIds : SMgr_register_scene(id)
    \/ \E id \in SceneIds : SMgr_set_current_scene(id)
    \/ SMgr_take_current_scene
    \/ SMgr_get_current_scene_mut

InitSceneManager == InitWith(DemoScene_new(WindowAspect).resource_manager, << >>)

SpecSceneManager == InitSceneManager /\ [][NextSceneManager]_vars

(***************************************************************************)
(* Properties.                                                             *)
(***************************************************************************)
\* the indices of the frame's trace at which the named step stands
StepIndices(trace, name) == { i \in 1 .. Len(trace) : trace[i][1] = name }

FrameSteps ==
    {"update", "update_camera_uniform", "acquire_frame", "acquire_failed",
     "begin_render_pass", "submit", "present"}

\* the steps of a render call in the order they were performed, without the
\* commands recorded inside the pass
RECURSIVE StepsOf(_)
StepsOf(trace) ==
    IF trace = << >> THEN << >>
    ELSE IF Head(trace)[1] \in FrameSteps
         THEN << Head(trace)[1] >> \o StepsOf(Tail(trace))
         ELSE StepsOf(Tail(trace))

\* C1: once initialize has completed with initialized = true, a later
\* initialize call leaves the resource manager, the camera buffer, the camera
\* bind group, the camera and the render-object list unchanged, and no Scene
\* operation takes an initialized scene back to uninitialized.
C1_InitializeOneWay ==
    [][ /\ initialized => initialized'
        /\ (initialized /\ last'.op = "initialize") =>
               UNCHANGED << resource_manager, camera_buffer, camera_bind_group,
                            camera, render_objects >> ]_vars

\* an initialize call on an initialized scene that has since gained a mesh
C1_SecondInitialize ==
    /\ initialized
    /\ last.op = "initialize"
    /\ DOMAIN resource_manager.meshes # {}
    /\ render_objects # << >>

\* C2: in every render call that records a pass, Scene.update comes before
\* the camera-uniform upload and the upload before begin_render_pass.
C2_UpdateUploadRecord ==
    (frame.rendered /\ StepIndices(frame.trace, "begin_render_pass") # {}) =>
        /\ StepIndices(frame.trace, "update") # {}
        /\ StepIndices(frame.trace, "update_camera_uniform") # {}
        /\ \A u \in StepIndices(frame.trace, "update"),
              c \in StepIndices(frame.trace, "update_camera_uniform"),
              b \in StepIndices(frame.trace, "begin_render_pass") :
               u < c /\ c < b

\* a frame whose update moved the camera and whose pass bound the uploaded uniform
C2_MovedCameraFrame ==
    /\ frame.rendered
    /\ StepIndices(frame.trace, "set_bind_group") # {}
    /\ camera.eye # Camera_new(WindowAspect).eye
    /\ buffer_data[camera_buffer] = update_view_proj(camera)

C4_FailedFrameSkipped ==
    (frame.rendered /\ ~frame.res.ok) =>
        /\ frame.res = Err("RenderError")
        /\ StepIndices(frame.trace, "submit") = {}
        /\ StepIndices(frame.trace, "present") = {}
        /\ "Rendering error" \in app.logged
        /\ app.engine
        /\ app.redraw_requested
        /\ ~app.exited =>
               ENABLED (\E dt \in DtSet, surface_ok \in BOOLEAN :
                            RedrawRequested(dt, surface_ok))

\* the state a failed render call leaves, the loop still running
C4_FailedFrame ==
    /\ frame.rendered
    /\ ~frame.res.ok
    /\ ~app.exited
    /\ initialized

C6_MissingShader ==
    [][ (/\ last'.op = "create_pipeline"
         /\ Arg(last', 2) \notin DOMAIN resource_manager.shaders) =>
            /\ Result(last') = Err("ResourceNotFound")
            /\ resource_manager' = resource_manager ]_vars

\* a refused create_pipeline on a manager that holds another shader
C6_Refused ==
    /\ last.op = "create_pipeline"
    /\ Result(last) = Err("ResourceNotFound")
    /\ DOMAIN resource_manager.shaders # {}
    /\ Arg(last, 2) \notin DOMAIN resource_manager.shaders
    /\ Arg(last, 1) \notin DOMAIN resource_manager.pipelines

\* the generate calls made so far: the thread and the position in its list
GenerateCalls ==
    UNION { { << t, i >> : i \in 1 .. Len(callers[t].ids) } : t \in DOMAIN callers }

IdOfCall(call) == callers[call[1]].ids[call[2]]

C8_RemoveAbsent ==
    [][ (/\ last'.op = "remove_object"
         /\ \A i \in 1 .. Len(render_objects) :
                render_objects[i].id # Arg(last', 1)) =>
            /\ Result(last') = FALSE
            /\ render_objects' = render_objects ]_vars

\* a remove_object of an id that was handed out and is no longer in the
\* list, on a list that still holds an object
C8_RemovedTwice ==
    /\ last.op = "remove_object"
    /\ Result(last) = FALSE
    /\ Arg(last, 1) < NEXT_OBJECT_ID
    /\ render_objects # << >>

\* C9: move_object and set_object_visible return true exactly when the id is
\* in the list, change only the position or the visible flag of the object
\* with that id, and keep the length and the order of the list.
C9_MoveAndShow ==
    [][ last'.op \in {"move_object", "set_object_visible"} =>
          LET id == Arg(last', 1)
              changed(object) ==
                  IF last'.op = "move_object"
                  THEN [object EXCEPT !.position = Arg(last', 2)]
                  ELSE [object EXCEPT !.visible = Arg(last', 2)]
          IN  /\ Result(last') = (\E i \in 1 .. Len(render_objects) :
                                  render_objects[i].id = id)
              /\ Len(render_objects') = Len(render_objects)
              /\ \A i \in 1 .. Len(render_objects) :
                     render_objects'[i] =
                         IF render_objects[i].id = id
                         THEN changed(render_objects[i])
                         ELSE render_objects[i]
              /\ ~Result(last') => render_objects' = render_objects ]_vars

\* a move_object that found the second of two objects and moved it away from
\* the first
C9_MovedSecond ==
    /\ last.op = "move_object"
    /\ Result(last) = TRUE
    /\ Len(render_objects) = 2
    /\ render_objects[2].id = Arg(last, 1)
    /\ render_objects[2].position = Arg(last, 2)
    /\ render_objects[1].position # Arg(last, 2)

\* C10: the stored size is that of the last resize call with both dimensions
\* nonzero, or the initial one, and is never 0; a resize call with a 0
\* dimension leaves the whole configuration and the configured surface as
\* they were.
C10_ResizeZeroIgnored ==
    /\ [](/\ << surface_config.width, surface_config.height >> = last_valid_size
          /\ surface_config.configured = last_valid_size
          /\ surface_config.width # 0
          /\ surface_config.height # 0)
    /\ [][ (/\ last'.op = "resize"
            /\ (Arg(last', 1) = 0 \/ Arg(last', 2) = 0)) =>
               surface_config' = surface_config ]_vars

\* a resize call with width 0 on a surface of the largest width
C10_ZeroAfterValid ==
    /\ last.op = "resize"
    /\ Arg(last, 1) = 0
    /\ Arg(last, 2) # 0
    /\ surface_config.width = MaxDim
    /\ surface_config.format = "Bgra8UnormSrgb"

Last_is_render_scene == last.op = "render_scene"

\* the object ids of the draw calls of a pass, in the order they were issued
RECURSIVE DrawnIds(_)
DrawnIds(trace) ==
    IF trace = << >> THEN << >>
    ELSE IF Head(trace)[1] \in {"draw", "draw_indexed"}
         THEN << Head(trace)[3] >> \o DrawnIds(Tail(trace))
         ELSE DrawnIds(Tail(trace))

\* the ids of the objects of the list whose pipeline and mesh the manager
\* holds, in list order
RECURSIVE DrawableIds(_, _)
DrawableIds(objects, rm) ==
    IF objects = << >> THEN << >>
    ELSE IF /\ Head(objects).pipeline_id \in DOMAIN rm.pipelines
            /\ Head(objects).mesh_id \in DOMAIN rm.meshes
         THEN << Head(objects).id >> \o DrawableIds(Tail(objects), rm)
         ELSE DrawableIds(Tail(objects), rm)

\* C11: the draw calls of render_scene are the objects of the list, in list
\* order, whose pipeline and mesh are in the manager's tables; the others are
\* skipped and the call still returns Ok.
C11_DrawsInListOrder ==
    Last_is_render_scene =>
        /\ frame.res.ok
        /\ DrawnIds(frame.trace) = DrawableIds(render_objects, Arg(last, 1))

\* a pass that skipped the first object of the list and drew two after it
C11_SkippedFirst ==
    /\ Last_is_render_scene
    /\ Len(render_objects) = 3
    /\ DrawnIds(frame.trace) = << render_objects[2].id, render_objects[3].id >>

\* C12: get_render_objects hands out the whole list, hidden objects included,
\* a pass draws a hidden object like a visible one, and set_object_visible
\* leaves the pass that render_scene records, with whichever manager, as it
\* was.
C12_VisibleFlagIgnored ==
    /\ [](/\ get_render_objects(Scene) = render_objects
          /\ Last_is_render_scene =>
                 \A i \in 1 .. Len(render_objects) :
                     (/\ ~render_objects[i].visible
                      /\ render_objects[i].pipeline_id \in DOMAIN Arg(last, 1).pipelines
                      /\ render_objects[i].mesh_id \in DOMAIN Arg(last, 1).meshes)
                     => \E k \in 1 .. Len(DrawnIds(frame.trace)) :
                            DrawnIds(frame.trace)[k] = render_objects[i].id)
    /\ [][ last'.op = "set_object_visible" =>
               \A rm \in Managers(resource_manager) :
                   render_scene(Scene', rm) = render_scene(Scene, rm) ]_vars

\* a pass that drew a hidden object
C12_HiddenDrawn ==
    /\ Last_is_render_scene
    /\ \E i \in 1 .. Len(render_objects) :
           /\ ~render_objects[i].visible
           /\ \E k \in 1 .. Len(DrawnIds(frame.trace)) :
                  DrawnIds(frame.trace)[k] = render_objects[i].id

\* the mesh the manager holds for the object with the id
MeshOfObject(objects, rm, object_id) ==
    get_mesh(rm, objects[Find(objects, object_id)].mesh_id)

\* the commands that must end at a draw call standing at index i of the pass
DrawPrecededBySetup(trace, i, objects, rm) ==
    LET object_id == trace[i][3]
        object    == objects[Find(objects, object_id)]
        mesh      == MeshOfObject(objects, rm, object_id)
        pipeline  == << "set_pipeline", rm.pipelines[object.pipeline_id], object_id >>
        vertex    == << "set_vertex_buffer", 0, mesh.vertex_buffer >>
    IN  /\ Find(objects, object_id) # 0
        /\ IF trace[i][1] = "draw_indexed"
           THEN /\ mesh.index_buffer # None
                /\ trace[i][2] = mesh.index_count
                /\ i > 3
                /\ trace[i - 1] = << "set_index_buffer", mesh.index_buffer, object_id >>
                /\ trace[i - 2] = vertex
                /\ trace[i - 3] = pipeline
           ELSE /\ mesh.index_buffer = None
                /\ trace[i][2] = mesh.vertex_count
                /\ i > 2
                /\ trace[i - 1] = vertex
                /\ trace[i - 2] = pipeline

\* C13: a recorded command buffer holds one render pass; the camera bind group
\* is bound at slot 0 right after the pass begins when the scene has one and
\* never otherwise; every pipeline set is followed by vertex buffer 0 and one
\* draw of that object, indexed over the index count when the mesh has an
\* index buffer and plain over the vertex count when it has none.
C13_PassShape ==
    Last_is_render_scene =>
        LET trace == frame.trace
            draws == StepIndices(trace, "draw") \cup StepIndices(trace, "draw_indexed")
        IN  /\ StepIndices(trace, "begin_render_pass") = {1}
            /\ StepIndices(trace, "end_render_pass") = {Len(trace)}
            /\ StepIndices(trace, "set_bind_group") =
                   IF camera_bind_group # None THEN {2} ELSE {}
            /\ camera_bind_group # None =>
                   trace[2] = << "set_bind_group", 0, camera_bind_group >>
            /\ \A i \in draws :
                   DrawPrecededBySetup(trace, i, render_objects, Arg(last, 1))
            /\ Cardinality(StepIndices(trace, "set_pipeline")) = Cardinality(draws)
            /\ Cardinality(StepIndices(trace, "set_vertex_buffer")) = Cardinality(draws)
            /\ Cardinality(StepIndices(trace, "set_index_buffer")) =
                   Cardinality(StepIndices(trace, "draw_indexed"))
            /\ \A i \in draws, j \in draws : trace[i][3] = trace[j][3] => i = j

\* a pass with the bind group bound, an indexed draw and a plain draw
C13_BothDrawKinds ==
    /\ Last_is_render_scene
    /\ StepIndices(frame.trace, "set_bind_group") # {}
    /\ StepIndices(frame.trace, "draw_indexed") # {}
    /\ StepIndices(frame.trace, "draw") # {}

Tables == {"buffers", "shaders", "pipelines", "meshes", "bind_groups"}

\* get_*(id) by table
Lookup(rm, table, id) ==
    CASE table = "buffers"     -> get_buffer(rm, id)
      [] table = "shaders"     -> get_shader(rm, id)
      [] table = "pipelines"   -> get_pipeline(rm, id)
      [] table = "bind_groups" -> get_bind_group(rm, id)
      [] OTHER                 -> get_mesh(rm, id)

Absent(table) == IF table = "meshes" THEN NoMesh ELSE None

\* the ids looked up: the ids created under and the sub-ids derived from them
LookupIds ==
    RmIds \cup { ResourceId_new(<< N(id), S(suffix) >>) :
                     id \in RmIds, suffix \in {"_vertex", "_index"} }

\* what a call stored: the table, the id and the handle
Stores(call) ==
    LET id == Arg(call, 1)
        r  == Result(call)
    IN  CASE call.op \in {"create_buffer_with_data", "create_uniform_buffer"} ->
                 { << "buffers", id, r.val >> }
          [] call.op = "create_shader" -> { << "shaders", id, r.val >> }
          [] call.op = "create_pipeline" ->
                 IF r.ok THEN { << "pipelines", id, r.val >> } ELSE {}
          [] call.op = "create_bind_group" -> { << "bind_groups", id, r.val >> }
          [] call.op = "register_mesh" ->
                 { << "meshes", id, r >>,
                   << "buffers", ResourceId_new(<< N(id), S("_vertex") >>),
                      r.vertex_buffer >> }
                 \cup (IF r.index_buffer # None
                       THEN { << "buffers", ResourceId_new(<< N(id), S("_index") >>),
                                 r.index_buffer >> }
                       ELSE {})
          [] OTHER -> {}

\* C14: every lookup of a new manager is absent; a creation or registration
\* makes the lookups of what it stored return the handles it stored, replacing
\* what an earlier one stored there, and every other lookup answers as before.
C14_LookupsTotal ==
    /\ \A table \in Tables, id \in LookupIds :
           Lookup(resource_manager, table, id) = Absent(table)
    /\ [][ \A table \in Tables, id \in LookupIds :
               LET stored == { e \in Stores(last') : e[1] = table /\ e[2] = id }
               IN  IF stored # {}
                   THEN \A e \in stored : Lookup(resource_manager', table, id) = e[3]
                   ELSE Lookup(resource_manager', table, id) =
                            Lookup(resource_manager, table, id) ]_vars

\* handles held by the tables that hold handles
HeldHandles ==
    Cardinality(DOMAIN resource_manager.buffers)
    + Cardinality(DOMAIN resource_manager.shaders)
    + Cardinality(DOMAIN resource_manager.pipelines)
    + Cardinality(DOMAIN resource_manager.bind_groups)

\* a create_shader that replaced an earlier handle, its id now looked up to
\* the new handle while another table has nothing under that id
C14_Overwritten ==
    /\ last.op = "create_shader"
    /\ get_shader(resource_manager, Arg(last, 1)) = Result(last).val
    /\ next_handle - 1 > HeldHandles
    /\ get_pipeline(resource_manager, Arg(last, 1)) = None
    /\ DOMAIN resource_manager.meshes = {}

\* ResourceId::new(&format!("{}_vertex", id.0)) as a caller computes it
SubId(id, suffix) == ResourceId_new(<< N(id), S(suffix) >>)

\* C15: after register_mesh(id, mesh) get_mesh(id) is that mesh, get_buffer
\* of the id made from the name `{id}_vertex` is its vertex buffer and, when
\* the mesh has an index buffer, get_buffer of the id made from `{id}_index`
\* is that index buffer.
C15_MeshSubIds ==
    last.op = "register_mesh" =>
        LET id   == Arg(last, 1)
            mesh == Result(last)
        IN  /\ get_mesh(resource_manager, id) = mesh
            /\ mesh.vertex_buffer # None
            /\ get_buffer(resource_manager, SubId(id, "_vertex")) = mesh.vertex_buffer
            /\ mesh.index_buffer # None =>
                   get_buffer(resource_manager, SubId(id, "_index")) = mesh.index_buffer

\* a registered quad: both buffers filed under the sub-ids, which differ from
\* each other and from the mesh id
C15_QuadRegistered ==
    /\ last.op = "register_mesh"
    /\ Result(last).index_buffer # None
    /\ get_buffer(resource_manager, SubId(Arg(last, 1), "_index")) = Result(last).index_buffer
    /\ get_buffer(resource_manager, SubId(Arg(last, 1), "_vertex")) = Result(last).vertex_buffer
    /\ get_buffer(resource_manager, Arg(last, 1)) = None

\* C16: each add_object registers its mesh under a mesh id that no earlier
\* add_object of the scene used, and leaves the mesh of every object of the
\* list as it was.  The manager of an initialized scene keeps every mesh id an
\* add_object registered.
C16_MeshIdsNeverReused ==
    [][ last'.op = "add_object" =>
            LET added == render_objects'[Len(render_objects')]
            IN  /\ added.mesh_id \notin DOMAIN resource_manager.meshes
                /\ \A i \in 1 .. Len(render_objects) :
                       get_mesh(resource_manager', render_objects[i].mesh_id) =
                           get_mesh(resource_manager, render_objects[i].mesh_id) ]_vars

\* the view-projection matrix the GPU holds in the scene's camera buffer
GpuCameraData == buffer_data[camera_buffer]

PassRecorded == StepIndices(frame.trace, "begin_render_pass") # {}

\* C17: after update_camera_uniform on an initialized scene the CPU-side
\* CameraUniform and the contents of the GPU camera buffer both equal the
\* view-projection matrix of the camera as it is then; and after a render
\* call that recorded a pass on an initialized scene, the GPU camera buffer
\* equals the view-projection matrix of the camera as that call's update
\* left it.
C17_CameraUniformSynced ==
    /\ (last.op = "update_camera_uniform" /\ initialized) =>
           /\ camera_uniform = build_view_proj_matrix(camera)
           /\ camera_buffer \in DOMAIN buffer_data
           /\ GpuCameraData = build_view_proj_matrix(camera)
    /\ (last.op = "render" /\ initialized /\ PassRecorded) =>
           /\ camera_buffer \in DOMAIN buffer_data
           /\ GpuCameraData = build_view_proj_matrix(camera)

\* a frame whose update turned and moved the camera recorded its pass with
\* the buffer holding the matrix of the camera it left
C17_MovedThenRecorded ==
    /\ last.op = "render" /\ initialized /\ PassRecorded
    /\ Arg(last, 1) = 1
    /\ camera.eye # Camera_new(WindowAspect).eye
    /\ camera.target.x # camera.eye.x
    /\ GpuCameraData = build_view_proj_matrix(camera)

\* the names ids are made from while a resource manager is used
RmNames ==
    LET literals == { << S("basic_shader") >>, << S("basic_pipeline") >> }
    IN  literals \cup { << N(ResourceId_new(name)), S(suffix) >> :
                            name \in literals, suffix \in {"_vertex", "_index"} }

MoveOps == {"move_forward", "move_right", "move_up"}

\* the vector from eye to target of a camera, as the triple of the exact
\* differences of the stored coordinates
EyeToTarget(c) == << c.target.x - c.eye.x, c.target.y - c.eye.y, c.target.z - c.eye.z >>

\* no coordinate is NaN
Finite(c) == ~c.eye.nan /\ ~c.target.nan

\* every coordinate is below 2^SignificandBits in magnitude, where sums are
\* exact
ExactRange(c) ==
    \A v \in {c.eye, c.target} : \A k \in {"x", "y", "z"} : Abs(v[k]) < ExactLimit

\* C19, as stated: a move_forward, move_right or move_up, for any d and
\* after any sequence of such moves, leaves the eye-to-target vector as it
\* was.
C19_MovesKeepEyeToTarget ==
    [][last'.op \in MoveOps =>
          /\ Finite(camera')
          /\ EyeToTarget(camera') = EyeToTarget(camera)]_vars

\* C19, amended: a move whose result is finite and within the range where
\* the additions are exact leaves the eye-to-target vector as it was.
C19_ExactMovesKeepEyeToTarget ==
    [][(last'.op \in MoveOps /\ Finite(camera') /\ ExactRange(camera')) =>
          EyeToTarget(camera') = EyeToTarget(camera)]_vars

\* a camera moved along two axes within the exact range, still looking
\* along the vector it started with
C19_MovedTwiceSameOffset ==
    /\ last.op \in MoveOps
    /\ Finite(camera) /\ ExactRange(camera)
    /\ camera.eye.x # 0 /\ camera.eye.z # 3
    /\ EyeToTarget(camera) = EyeToTarget(Camera_new(WindowAspect))

RotateOps == {"rotate_horizontal", "rotate_vertical"}

\* the fields of a camera other than target
OtherFields(c) == << c.eye, c.up, c.aspect, c.fovy, c.znear, c.zfar >>

\* a != b on Vec3: a NaN component differs from everything
VecDiffers(a, b) == a.nan \/ b.nan \/ a # b

\* the eye-to-target direction has a component in the horizontal plane
LooksSideways(c) ==
    LET direction == VSub(c.target, c.eye)
    IN  ~direction.nan /\ (direction.x # 0 \/ direction.z # 0)

\* C20, as stated: rotate_horizontal and rotate_vertical leave eye, up,
\* aspect, fovy, znear and zfar as they were, and rotate_horizontal with a
\* nonzero angle changes target.
C20_RotateChangesTarget ==
    [][/\ last'.op \in RotateOps => OtherFields(camera') = OtherFields(camera)
       /\ (last'.op = "rotate_horizontal" /\ Arg(last', 1) # 0) =>
              VecDiffers(camera'.target, camera.target)]_vars

\* C20, amended: rotate_horizontal and rotate_vertical leave eye, up,
\* aspect, fovy, znear and zfar as they were, and rotate_horizontal with an
\* angle that is not a whole number of turns changes target when the
\* eye-to-target direction has a horizontal component.
C20_RotateSidewaysChangesTarget ==
    [][/\ last'.op \in RotateOps => OtherFields(camera') = OtherFields(camera)
       /\ (last'.op = "rotate_horizontal" /\ Arg(last', 1) % 4 # 0
              /\ LooksSideways(camera)) =>
              VecDiffers(camera'.target, camera.target)]_vars

\* a moved camera turned a quarter to the side: it looks along x from where
\* it stood
C20_TurnedAfterMove ==
    /\ last.op = "rotate_horizontal"
    /\ Finite(camera)
    /\ camera.eye # Camera_new(WindowAspect).eye
    /\ camera.target.x # camera.eye.x
    /\ camera.target.z = camera.eye.z

\* the exact displacement of the eye between two cameras
EyeMove(c, d) == << d.eye.x - c.eye.x, d.eye.y - c.eye.y, d.eye.z - c.eye.z >>

\* the unit forward direction of a camera scaled by k, as a triple
ForwardTimes(c, k) ==
    LET forward == VNormalize(VSub(c.target, c.eye))
    IN  << forward.x * k, forward.y * k, forward.z * k >>

\* the squared eye-to-target distance
Distance2(c) ==
    LET e == EyeToTarget(c) IN e[1] * e[1] + e[2] * e[2] + e[3] * e[3]

\* what update leaves alone: the object list, the resource tables and the
\* initialized flag
UpdateFrame == << render_objects, resource_manager, initialized >>

\* C21, as stated: update with only W held moves the eye by move_speed * dt
\* along the forward direction and keeps the eye-to-target distance; with
\* no key held it leaves the camera as it was; it never changes the object
\* list, the resource tables or the initialized flag.
C21_UpdateMovesForward ==
    [][last'.op = "update" =>
          /\ Arg(last', 2) = {"KeyW"} =>
                 /\ Finite(camera')
                 /\ EyeMove(camera, camera') = ForwardTimes(camera, move_speed * Arg(last', 1))
                 /\ Distance2(camera') = Distance2(camera)
          /\ Arg(last', 2) = {} => camera' = camera
          /\ UpdateFrame' = UpdateFrame]_vars

\* C21, amended: the same, for an update whose resulting camera is finite
\* and within the range where the additions are exact.
C21_ExactUpdateMovesForward ==
    [][last'.op = "update" =>
          /\ (Arg(last', 2) = {"KeyW"} /\ Finite(camera') /\ ExactRange(camera')) =>
                 /\ EyeMove(camera, camera') = ForwardTimes(camera, move_speed * Arg(last', 1))
                 /\ Distance2(camera') = Distance2(camera)
          /\ Arg(last', 2) = {} => camera' = camera
          /\ UpdateFrame' = UpdateFrame]_vars

\* the scenario: W held for dt = 1 on the initialized scene with an object
\* took the eye from (0, 0, 3) to (0, 0, -2) and the target to (0, 0, -5)
C21_ForwardByFive ==
    /\ last.op = "update" /\ Arg(last, 1) = 1 /\ Arg(last, 2) = {"KeyW"}
    /\ initialized /\ render_objects # << >>
    /\ camera.eye = V(0, 0, -2)
    /\ camera.target = V(0, 0, -5)

\* the step is the handler of a RedrawRequested event
IsRedrawRequested == \E dt \in DtSet, surface_ok \in BOOLEAN : RedrawRequested(dt, surface_ok)

\* the step is the handler of a CursorMoved event to the position pos
IsCursorMoved(pos) == CursorMoved(pos[1], pos[2])

\* C22: the handler of every RedrawRequested event leaves the mouse delta
\* zero and the pressed keys, the pressed buttons and the mouse position as
\* they were; the handler of CursorMoved sets the delta to the new position
\* minus the previous one and the position to the new one.
C22_OnlyDeltaReset ==
    [][/\ IsRedrawRequested =>
              /\ input_state'.mouse_delta = << 0, 0 >>
              /\ input_state'.keys_pressed = input_state.keys_pressed
              /\ input_state'.mouse_buttons = input_state.mouse_buttons
              /\ input_state'.mouse_posittion = input_state.mouse_posittion
       /\ \A pos \in MousePositions :
              IsCursorMoved(pos) =>
                 /\ input_state'.mouse_delta =
                        << pos[1] - input_state.mouse_posittion[1],
                           pos[2] - input_state.mouse_posittion[2] >>
                 /\ input_state'.mouse_posittion = pos]_vars

\* a frame was rendered and the delta is zero although the mouse has moved
\* and a key and a button are held
C22_ResetAfterMove ==
    /\ frame.rendered
    /\ input_state.mouse_delta = << 0, 0 >>
    /\ input_state.mouse_posittion = << 1, 2 >>
    /\ "KeyW" \in input_state.keys_pressed
    /\ "Left" \in input_state.mouse_buttons

\* C23: rotate_horizontal and rotate_vertical leave the eye-to-target
\* distance as it was, for any angle and any starting distance.
C23_RotationKeepsDistance ==
    [][(last'.op \in RotateOps /\ Finite(camera) /\ Finite(camera')) =>
          Distance2(camera') = Distance2(camera)]_vars

\* C24: set_current_scene(id) with an id that is not registered returns
\* SceneNotFound and leaves the selection and the scene table as they were;
\* with a registered id it returns Ok and makes that id current; in every
\* state the current scene id is empty or the id of a registered scene.
C24_CurrentIsRegistered ==
    /\ [](SceneManager.current_scene_id # None =>
              SceneManager.current_scene_id \in DOMAIN SceneManager.scenes)
    /\ [][last'.op = "set_current_scene" =>
              IF Arg(last', 1) \in DOMAIN SceneManager.scenes
              THEN /\ Result(last') = Ok(0)
                   /\ SceneManager'.current_scene_id = Arg(last', 1)
                   /\ SceneManager'.scenes = SceneManager.scenes
              ELSE /\ Result(last') = Err("SceneNotFound")
                   /\ SceneManager' = SceneManager]_vars

\* a lookup miss while a scene is current: the selection is still there
C24_MissKeepsSelection ==
    /\ last.op = "set_current_scene"
    /\ ~Result(last).ok
    /\ SceneManager.current_scene_id # None
    /\ SceneManager.current_scene_id # Arg(last, 1)

\* the scenes a scene manager holds
HeldScenes(sm) == { sm.scenes[id] : id \in DOMAIN sm.scenes }

\* the last operation took the scene out of the manager
TakenNow(scene) == last.op = "take_current_scene" /\ Result(last) = << scene >>

\* C25: take_current_scene with a current scene returns the scene
\* registered under the current id, clears the selection and removes the
\* entry, so that get_current_scene_mut and a second take_current_scene
\* return nothing; with no current scene it returns nothing and changes
\* nothing; while nothing is selected both return nothing; and a scene that
\* was taken out is never held by the manager again.
C25_TakeMovesSceneOut ==
    /\ [][last'.op = "take_current_scene" =>
              IF SceneManager.current_scene_id # None
              THEN /\ Result(last') = << SceneManager.scenes[SceneManager.current_scene_id] >>
                   /\ SceneManager'.current_scene_id = None
                   /\ SceneManager'.scenes =
                          Remove(SceneManager.scenes, SceneManager.current_scene_id)
                   /\ get_current_scene_mut(SceneManager') = << >>
                   /\ take_current_scene(SceneManager').res = << >>
              ELSE /\ Result(last') = << >>
                   /\ SceneManager' = SceneManager]_vars
    /\ [](SceneManager.current_scene_id = None =>
              /\ get_current_scene_mut(SceneManager) = << >>
              /\ take_current_scene(SceneManager) = [sm |-> SceneManager, res |-> << >>])
    /\ \A scene \in 1 .. MaxScenes :
           [](TakenNow(scene) => [](scene \notin HeldScenes(SceneManager)))

\* a scene was taken out while the manager keeps another one
C25_TakenOneLeftOne ==
    /\ last.op = "take_current_scene"
    /\ Result(last) # << >>
    /\ SceneManager.current_scene_id = None
    /\ HeldScenes(SceneManager) # {}
    /\ Head(Result(last)) \notin HeldScenes(SceneManager)

\* C26: in every state between the operations of a scene, initialized is
\* true exactly when get_camera_buffer returns a handle and exactly when
\* get_camera_bind_group returns a handle.
C26_InitializedIffCameraHandles ==
    /\ initialized <=> get_camera_buffer(Scene) # None
    /\ initialized <=> get_camera_bind_group(Scene) # None

\* an initialize that failed at pipeline creation: the resource manager is
\* installed and holds the shader, and the scene has neither handle
C26_FailedAtPipeline ==
    /\ last.op = "initialize"
    /\ Result(last) = "pipeline"
    /\ resource_manager.some
    /\ DOMAIN resource_manager.shaders # {}
    /\ ~initialized
    /\ get_camera_buffer(Scene) = None
    /\ get_camera_bind_group(Scene) = None

\* the ids of the objects of a list
IdsOf(objects) == { objects[i].id : i \in 1 .. Len(objects) }

\* the last operation removed the object with this id
RemovedNow(object_id) ==
    last.op = "remove_object" /\ Arg(last, 1) = object_id /\ Result(last) = TRUE

C28_TablesOnlyGrow ==
    /\ [][ /\ \A table \in Tables, id \in LookupIds :
                   Lookup(resource_manager, table, id) # Absent(table) =>
                       Lookup(resource_manager', table, id) # Absent(table)
            /\ \A t \in Tables :
                   DOMAIN resource_manager[t] \subseteq DOMAIN resource_manager'[t]
          ]_vars
    /\ \A table \in Tables, id \in LookupIds :
           [](Lookup(resource_manager, table, id) # Absent(table) =>
                 [](Lookup(resource_manager, table, id) # Absent(table)))

\* a create_pipeline that failed on a missing shader, the pipeline an earlier
\* call stored under the same id and the shader it was built from still found
C28_KeptAcrossFailure ==
    /\ last.op = "create_pipeline"
    /\ ~Result(last).ok
    /\ get_pipeline(resource_manager, Arg(last, 1)) # None
    /\ get_shader(resource_manager, Arg(last, 2)) = None
    /\ DOMAIN resource_manager.shaders # {}

\* the entries a call may write: the table and the id
Footprint(call) ==
    LET id == Arg(call, 1)
    IN  CASE call.op \in {"create_buffer_with_data", "create_uniform_buffer"} ->
                 { << "buffers", id >> }
          [] call.op = "create_shader"     -> { << "shaders", id >> }
          [] call.op = "create_pipeline"   -> { << "pipelines", id >> }
          [] call.op = "create_bind_group" -> { << "bind_groups", id >> }
          [] call.op = "register_mesh" ->
                 { << "meshes", id >>,
                   << "buffers", SubId(id, "_vertex") >>,
                   << "buffers", SubId(id, "_index") >> }
          [] OTHER -> {}

\* C29: a creation call changes only its own table at the id it is given
\* (register_mesh: the mesh table at id and the buffer table at the two
\* sub-ids derived from id); update_uniform_buffer changes no table.  Every
\* entry of every table outside that is there afterwards exactly as before,
\* and nothing else is added.
C29_OnlyOwnTableAtId ==
    [][ /\ \A t \in Tables :
               \A id \in (DOMAIN resource_manager[t]) \cup (DOMAIN resource_manager'[t]) :
                   << t, id >> \notin Footprint(last') =>
                       /\ id \in DOMAIN resource_manager[t]
                       /\ id \in DOMAIN resource_manager'[t]
                       /\ resource_manager'[t][id] = resource_manager[t][id]
        /\ last'.op = "update_uniform_buffer" => resource_manager' = resource_manager
        /\ resource_manager'.surface_format = resource_manager.surface_format
      ]_vars

\* a quad registered under an id a buffer was created under: that buffer is
\* still there next to the mesh's two
C29_MeshBesideBuffer ==
    /\ last.op = "register_mesh"
    /\ Result(last).index_buffer # None
    /\ get_buffer(resource_manager, Arg(last, 1)) # None
    /\ get_buffer(resource_manager, Arg(last, 1)) < Result(last).vertex_buffer
    /\ Cardinality(DOMAIN resource_manager.buffers) = 3

\* buffers were created by register_mesh only: every entry of the buffer
\* table sits under a sub-id of a registered mesh id
OnlyMeshBuffers ==
    DOMAIN resource_manager.buffers \subseteq
        { SubId(id, suffix) : id \in DOMAIN resource_manager.meshes,
                              suffix \in {"_vertex", "_index"} }

\* C30: after register_mesh calls and no other buffer creation, for every
\* registered mesh id the entry under its vertex sub-id is the vertex buffer
\* of the mesh now registered under the id, and there is an entry under its
\* index sub-id exactly when that mesh has an index buffer, which it then is.
C30_BuffersMatchMeshes ==
    OnlyMeshBuffers =>
        \A id \in DOMAIN resource_manager.meshes :
            LET mesh == get_mesh(resource_manager, id)
            IN  /\ get_buffer(resource_manager, SubId(id, "_vertex")) = mesh.vertex_buffer
                /\ (get_buffer(resource_manager, SubId(id, "_index")) # None)
                       <=> (mesh.index_buffer # None)
                /\ mesh.index_buffer # None =>
                       get_buffer(resource_manager, SubId(id, "_index")) = mesh.index_buffer
====
